---- MODULE Spec2Model ----
(***************************************************************************)
(* The conformance host of the toy plugin protocol (src/host.go, the       *)
(* second, complete copy of the program starting at line 554): the process *)
(* supervisor (main, monitorStdout, monitorExit, handleUserExit) and the   *)
(* protocol client (runTests, standardTestCase.execute and the record      *)
(* checks).  For the host the plugin is the environment: it writes lines   *)
(* to its standard output, answers or fails calls, and exits (Spec,        *)
(* FairSpec).  A record check is also run on its own, on records of every  *)
(* shape (CheckSpec).  The Node plugin (src/unnamed/part_001) is modelled  *)
(* on its own: its type inference (TypeSpec), its Discover handler with   *)
(* the registry of known schemas (NodeSpec, NodeFairSpec), its Publish     *)
(* handler (PubSpec) and its handler of SIGINT (PubSpec, CancelSpec).      *)
(***************************************************************************)
EXTENDS Integers, Sequences, FiniteSets, TLC

(***************************************************************************)
(* Bounds of the model.                                                    *)
(***************************************************************************)
\* lines the plugin writes to its standard output in one run
MaxLines == 3
\* signals delivered to the host in one run
MaxSignals == 1
\* records the plugin streams in answer to one Publish call
MaxRecords == 2

(***************************************************************************)
(* Text.  A line is a sequence of one-character strings, so that           *)
(* strconv.Atoi can be computed on it.                                     *)
(***************************************************************************)
DigitChars == {"0", "1", "2", "3", "4", "5", "6", "7", "8", "9"}

DigitVal(c) ==
    CASE c = "0" -> 0 [] c = "1" -> 1 [] c = "2" -> 2 [] c = "3" -> 3
      [] c = "4" -> 4 [] c = "5" -> 5 [] c = "6" -> 6 [] c = "7" -> 7
      [] c = "8" -> 8 [] c = "9" -> 9

RECURSIVE DecimalValue(_)
DecimalValue(ds) ==
    IF ds = <<>> THEN 0
    ELSE 10 * DecimalValue(SubSeq(ds, 1, Len(ds) - 1)) + DigitVal(ds[Len(ds)])

\* strconv.Atoi: an optional sign, then one or more decimal digits.
Atoi(s) ==
    LET signed == s # <<>> /\ s[1] \in {"+", "-"}
        ds     == IF signed THEN Tail(s) ELSE s
    IN  IF ds = <<>> \/ \E i \in 1..Len(ds) : ds[i] \notin DigitChars
        THEN [ok |-> FALSE, val |-> 0]
        ELSE [ok |-> TRUE,
              val |-> IF signed /\ s[1] = "-" THEN 0 - DecimalValue(ds)
                      ELSE DecimalValue(ds)]

\* the lines the plugin may write first, and the line it writes as its
\* i-th when i > 1 (the host never looks into these)
FirstLines == { <<>>, <<"0">>, <<"-", "1">>, <<"7">>, <<"a">> }
LaterLine(i) == IF i % 2 = 0 THEN <<"a">> ELSE <<"7">>

(***************************************************************************)
(* Schemas (plugin.Schema, plugin.Property) and the fixtures of runTests,  *)
(* scaled down: two test cases, shorter property lists, smaller counts.    *)
(***************************************************************************)
Prop(n, t) == [name |-> n, type |-> t]

schemaAnimals ==
    [name |-> "animals",
     properties |-> <<Prop("id", "integer"), Prop("name", "string")>>]

schemaLogs ==
    [name |-> "logs",
     properties |-> <<Prop("timestamp", "datetime"), Prop("event", "string"),
                      Prop("magnitude", "number")>>]

\* JSON values as encoding/json decodes them into interface{}: string,
\* float64, bool, nil; and time.Time, which only a fixture holds
Str(x)  == [k |-> "str",  s |-> x,  n |-> 0]
Num(x)  == [k |-> "num",  s |-> "", n |-> x]
Bool(b) == [k |-> "bool", s |-> "", n |-> IF b THEN 1 ELSE 0]
Null    == [k |-> "null", s |-> "", n |-> 0]
Time(i) == [k |-> "time", s |-> "", n |-> i]

\* the fields of recordCheck that its constructors set
requiredRecordCheck(index, value) ==
    [matchIndex |-> index, matchValue |-> value, isParseCheck |-> FALSE,
     checkIndex |-> 0, checkValue |-> Null, isBonus |-> FALSE,
     shouldBeInvalid |-> FALSE]

\* an invalid-record check that is not a bonus check
invalidRecordCheckMutant(index, value) ==
    [matchIndex |-> index, matchValue |-> value, isParseCheck |-> FALSE,
     checkIndex |-> 0, checkValue |-> Null, isBonus |-> FALSE,
     shouldBeInvalid |-> TRUE]

invalidRecordCheck(index, value) ==
    [matchIndex |-> index, matchValue |-> value, isParseCheck |-> FALSE,
     checkIndex |-> 0, checkValue |-> Null, isBonus |-> TRUE,
     shouldBeInvalid |-> TRUE]

parsingRecordCheck(keyIndex, keyValue, checkIndex, checkValue) ==
    [matchIndex |-> keyIndex, matchValue |-> keyValue, isParseCheck |-> TRUE,
     checkIndex |-> checkIndex, checkValue |-> checkValue, isBonus |-> TRUE,
     shouldBeInvalid |-> FALSE]

\* tests := []test{ ... } of runTests
tests ==
    << [n |-> "animals",
        expectedCount |-> 2,
        publishSchema |-> schemaAnimals,
        expectedSchemas |-> <<schemaAnimals>>,
        recordChecks |-> << requiredRecordCheck(1, Str("v")),
                            invalidRecordCheck(1, Str("m")),
                            parsingRecordCheck(1, Str("v"), 0, Num(52)) >>],
       [n |-> "logs",
        expectedCount |-> 1,
        publishSchema |-> schemaLogs,
        expectedSchemas |-> <<schemaAnimals, schemaLogs>>,
        recordChecks |-> << requiredRecordCheck(1, Str("n")) >>] >>

(***************************************************************************)
(* checkSchema, checkSchemaIn, findSchemaIn                                *)
(***************************************************************************)
RECURSIVE AllPropsAgree(_, _, _, _)
\* the loop of checkSchema: namesMatch (field = "name") or typesMatch
AllPropsAgree(want, have, field, i) ==
    IF i > Len(want.properties) THEN TRUE
    ELSE /\ want.properties[i][field] = have.properties[i][field]
         /\ AllPropsAgree(want, have, field, i + 1)

checkSchemaMutant(want, have) ==
    IF Len(want.properties) # Len(have.properties)
    THEN [namesMatch |-> FALSE, typesMatch |-> FALSE]
    ELSE [namesMatch |-> AllPropsAgree(want, have, "name", 1)
                         /\ AllPropsAgree(want, have, "type", 1),
          typesMatch |-> AllPropsAgree(want, have, "type", 1)]

checkSchema(want, have) ==
    IF Len(want.properties) # Len(have.properties)
    THEN [namesMatch |-> FALSE, typesMatch |-> FALSE]
    ELSE [namesMatch |-> AllPropsAgree(want, have, "name", 1),
          typesMatch |-> AllPropsAgree(want, have, "type", 1)]

\* index of the first schema of in whose names match, 0 when there is none
RECURSIVE FirstNamesMatch(_, _, _)
FirstNamesMatch(want, in, i) ==
    IF i > Len(in) THEN 0
    ELSE IF checkSchema(want, in[i]).namesMatch THEN i
    ELSE FirstNamesMatch(want, in, i + 1)

checkSchemaIn(want, in) ==
    LET i == FirstNamesMatch(want, in, 1)
    IN  IF i = 0
        THEN [namesMatch |-> FALSE, typesMatch |-> FALSE, found |-> 0]
        ELSE [namesMatch |-> TRUE,
              typesMatch |-> checkSchema(want, in[i]).typesMatch,
              found |-> i]

NilSchema == [name |-> "<nil>", properties |-> <<>>]

findSchemaInMutant(want, in) == want

findSchemaIn(want, in) ==
    LET i == FirstNamesMatch(want, in, 1)
    IN  IF i = 0 THEN NilSchema ELSE in[i]

(***************************************************************************)
(* Publish records.  record.Data is the JSON text of the data array:       *)
(* dataLen is the length of that text, data the array json.Unmarshal       *)
(* decodes from it.                                                        *)
(***************************************************************************)
RECURSIVE DecimalDigits(_)
DecimalDigits(x) == IF x < 10 THEN 1 ELSE 1 + DecimalDigits(x \div 10)

\* the length of the JSON text of one value
ValueLen(v) ==
    CASE v.k = "str"  -> Len(v.s) + 2
      [] v.k = "num"  -> DecimalDigits(v.n)
      [] v.k = "bool" -> IF v.n = 1 THEN 4 ELSE 5
      [] OTHER        -> 4

RECURSIVE ValuesLen(_)
ValuesLen(data) ==
    IF data = <<>> THEN 0 ELSE ValueLen(Head(data)) + ValuesLen(Tail(data))

\* the length of the JSON text of an array: brackets, values, commas
JsonLen(data) ==
    2 + ValuesLen(data) + (IF Len(data) > 1 THEN Len(data) - 1 ELSE 0)

Record(inv, data) == [invalid |-> inv, data |-> data, dataLen |-> JsonLen(data)]

\* the nil *plugin.PublishRecord of recordCheck.match
NoRecord == [invalid |-> FALSE, data |-> <<>>, dataLen |-> -1]

\* the records a plugin may stream
Records ==
    { Record(FALSE, <<Num(52), Str("v")>>),
      Record(FALSE, <<Num(5), Str("v")>>),
      Record(TRUE,  <<Num(1), Str("m")>>),
      Record(FALSE, <<Num(1), Str("m")>>),
      Record(FALSE, <<Str("t"), Str("n"), Num(27)>>),
      Record(FALSE, <<>>) }

\* time.Parse(time.RFC3339Nano, s) on the strings of the model: the instant
\* and whether the location is UTC (a "Z" suffix); ok is FALSE on an error
ParseRFC3339(s) ==
    CASE s = "1970-01-01T00:00:00Z"      -> [ok |-> TRUE,  instant |-> 0, utc |-> TRUE]
      [] s = "1970-01-01T01:00:00+01:00" -> [ok |-> TRUE,  instant |-> 0, utc |-> FALSE]
      [] s = "1970-01-01T00:00:01Z"      -> [ok |-> TRUE,  instant |-> 1, utc |-> TRUE]
      [] OTHER                           -> [ok |-> FALSE, instant |-> 0, utc |-> FALSE]

Abs(x) == IF x < 0 THEN 0 - x ELSE x

(***************************************************************************)
(* recordCheck.evaluateParsing, evaluate and result.  An index into data   *)
(* past its end is a run-time panic.                                       *)
(***************************************************************************)
\* "ok" (nil), "err" (an error) or "panic"
evaluateParsing(r, record) ==
    IF ~r.isParseCheck THEN "ok"
    ELSE IF r.checkIndex >= record.dataLen THEN "err"
    ELSE IF r.checkIndex >= Len(record.data) THEN "panic"
    ELSE LET actual == record.data[r.checkIndex + 1]
         IN  IF actual = Null
             THEN IF r.checkValue = Null THEN "ok" ELSE "err"
             ELSE CASE r.checkValue.k = "time" ->
                         LET t == ParseRFC3339(IF actual.k = "str" THEN actual.s ELSE "")
                         IN  IF ~t.ok THEN "err"
                             ELSE IF ~(t.utc /\ t.instant = r.checkValue.n) THEN "err"
                             ELSE "ok"
                    [] r.checkValue.k = "num" ->
                         IF actual.k # "num" THEN "err"
                         ELSE IF Abs(actual.n - r.checkValue.n) * 100000 > 1 THEN "err"
                         ELSE "ok"
                    [] OTHER ->
                         IF actual # r.matchValue THEN "err" ELSE "ok"

\* the state of one check: r.match and r.parseErr
NewCheck == [match |-> NoRecord, parseErr |-> FALSE]

\* [match, parseErr, panic] after evaluate(record, data)
evaluate(r, st, record) ==
    IF st.match # NoRecord
    THEN [match |-> st.match, parseErr |-> st.parseErr, panic |-> FALSE]
    ELSE IF r.matchIndex >= record.dataLen
    THEN [match |-> st.match, parseErr |-> st.parseErr, panic |-> FALSE]
    ELSE IF r.matchIndex >= Len(record.data)
    THEN [match |-> st.match, parseErr |-> st.parseErr, panic |-> TRUE]
    ELSE LET actual == record.data[r.matchIndex + 1]
             p      == evaluateParsing(r, record)
         IN  [match    |-> IF actual = r.matchValue THEN record ELSE NoRecord,
              parseErr |-> (p = "err"),
              panic    |-> (p = "panic")]

result(r, st) ==
    IF st.match = NoRecord THEN [ok |-> FALSE, msg |-> "missing"]
    ELSE IF r.shouldBeInvalid
    THEN IF st.match.invalid THEN [ok |-> TRUE, msg |-> "detected invalid"]
         ELSE [ok |-> FALSE, msg |-> "should be invalid"]
    ELSE IF r.isParseCheck
    THEN IF ~st.parseErr THEN [ok |-> TRUE, msg |-> "parsed"]
         ELSE [ok |-> TRUE, msg |-> "parse failed"]
    ELSE [ok |-> TRUE, msg |-> ""]

\* testResult.comment: an empty format adds nothing
comment(cs, c) == IF c = "" THEN cs ELSE Append(cs, c)

(***************************************************************************)
(* standardTestCase.execute: the pure parts                                *)
(***************************************************************************)
\* the Schemas lists a plugin may answer Discover with
DiscoverReplies ==
    LET animalsOtherTypes ==
            [name |-> "animals",
             properties |-> <<Prop("id", "string"), Prop("name", "string")>>]
        animalsOtherNames ==
            [name |-> "animals",
             properties |-> <<Prop("id", "integer"), Prop("title", "string")>>]
        animalsShort ==
            [name |-> "animals", properties |-> <<Prop("id", "integer")>>]
    IN  { <<>>,
          <<schemaAnimals>>,
          <<animalsOtherTypes, schemaAnimals, schemaLogs>>,
          <<animalsOtherNames, schemaLogs>>,
          <<schemaLogs, schemaAnimals>>,
          <<animalsShort>> }

Comment(m, about) == [msg |-> m, about |-> about]

\* the loop over t.expectedSchemas: [err, comments]; err is TRUE when the
\* loop returned "no schema matching ... was discovered"
RECURSIVE ScoreDiscover(_, _, _, _)
ScoreDiscover(wants, in, i, cs) ==
    IF i > Len(wants) THEN [err |-> FALSE, comments |-> cs]
    ELSE LET c == checkSchemaIn(wants[i], in)
         IN  IF ~c.namesMatch THEN [err |-> TRUE, comments |-> cs]
             ELSE ScoreDiscover(wants, in, i + 1,
                      Append(cs, Comment(IF c.typesMatch THEN "inferred types"
                                         ELSE "did not infer types",
                                         wants[i].name)))

\* expectedRecords.evaluate: every check sees the record, in order
EvaluateAll(rcs, sts, record) ==
    [i \in 1..Len(rcs) |-> evaluate(rcs[i], sts[i], record)]

\* the loop over t.recordChecks after the stream: [err, comments]
RECURSIVE ScoreRecords(_, _, _, _)
ScoreRecords(rcs, sts, i, cs) ==
    IF i > Len(rcs) THEN [err |-> FALSE, comments |-> cs]
    ELSE LET res == result(rcs[i], sts[i])
         IN  IF res.ok \/ rcs[i].isBonus
             THEN ScoreRecords(rcs, sts, i + 1,
                      IF res.msg = "" THEN cs
                      ELSE Append(cs, Comment(res.msg, rcs[i].matchValue.s)))
             ELSE [err |-> TRUE, comments |-> cs]

\* grpc.DialContext(ctx, "localhost:<port>", ..., grpc.WithBlock()) can
\* connect only to a TCP port a live plugin listens on
DialCanSucceed(port, state) == port \in 1..65535 /\ state = "running"

VARIABLES
    pluginState,   \* "running" | "exited"
    pluginCode,    \* exit status of the plugin (-1: ended by a signal)
    pluginOut,     \* the lines the plugin has written to its standard output
    exitedAt,      \* main's phase when the plugin ended ("" while it runs)
    scanned,       \* how many of them monitorStdout's scanner has returned
    stdoutPc,      \* monitorStdout: "scan" | "sendPort" | "forward"
    portVal,       \* the port monitorStdout parsed
    hostLog,       \* the plugin lines monitorStdout printed to the host log
    exitPc,        \* monitorExit: "wait" | "send1" | "send2" | "done"
    exitVal,       \* the status monitorExit sends on exitCh
    sigPc,         \* handleUserExit: "start" | "waiting" | "gotSig" | "killed"
    signals,       \* signals delivered to the host so far
    mainPc,        \* main: "select" | "exitBranch" | "dial" | "tests" | "return"
    mainExitCode,  \* the exit code main received from exitCh
    decided,       \* the branches of the startup select taken so far
    hostState,     \* "running" | "exited"
    hostStatus,    \* the host's exit status
    hostExitBy,    \* the statement that ended the host
    testIdx,       \* runTests: the index of the test case being executed
    discover,      \* execute: the Schemas of the Discover response
    target,        \* execute: targetSchema, the schema passed to Publish
    count,         \* execute: records received from the Publish stream
    checks,        \* execute: match and parseErr of each of t.recordChecks
    comments,      \* execute: result.comments so far
    results,       \* runTests: err of each testResult, and how its stream ended
    runErr,        \* the error runTests returns ("" for nil)
    rpcLog,        \* the calls the client has issued, in order
    open,          \* the calls issued that have not returned or ended yet
    check,         \* the recordCheck given to evaluate
    checkSt,       \* its r.match and r.parseErr
    checkPanic,    \* whether evaluate ended in a run-time panic
    seen,          \* the records evaluate was called with, in order
    engine,        \* plugin: the date parser of the JavaScript engine
    variant,       \* plugin: which of the two versions of utils.js is loaded
    text,          \* the value last given to getType
    typeOf,        \* the type getType returned for it
    column,        \* the values of the column last given to the type vote
    columnType,    \* the type the vote chose for it
    nodePc,        \* plugin: "main" until main() has returned, then "serving"
    nodeFirst,     \* plugin: the first line on stdout: "" | "port" | "log"
    nodePortLines, \* plugin: how many times the port was written to stdout
    knownSchemas,  \* plugin: utils.js knownSchemas, as references <<call, file>>
    calls,         \* plugin: the Discover calls and the schema objects of each
    pubs,          \* plugin: the Publish calls, their promises and their streams
    nodeExit       \* plugin: the status process.exit was called with (-1: none)

plugVars   == <<pluginState, pluginCode, pluginOut, exitedAt>>
stdoutVars == <<scanned, stdoutPc, portVal, hostLog>>
exitVars   == <<exitPc, exitVal>>
sigVars    == <<sigPc, signals>>
mainVars   == <<mainPc, mainExitCode, decided>>
hostVars   == <<hostState, hostStatus, hostExitBy>>
testVars   == <<testIdx, discover, target, count, checks, comments, results, runErr,
               rpcLog, open>>

inferVars  == <<engine, variant, text, typeOf, column, columnType>>
nodeVars   == <<nodePc, nodeFirst, nodePortLines, knownSchemas, calls>>
pubVars    == <<pubs, nodeExit>>
pluginSide == <<inferVars, nodeVars, pubVars>>
checkVars  == <<check, checkSt, checkPanic, seen>>
runVars    == <<plugVars, stdoutVars, exitVars, sigVars, mainVars, hostVars, testVars>>
hostSide   == <<runVars, checkVars>>

vars == <<hostSide, pluginSide>>

Running == hostState = "running"

\* "startup" until main has received the port, "run" from then on
Phase == IF mainPc \in {"select", "timeoutBranch", "exitBranch"}
         THEN "startup" ELSE "run"

\* os.Exit(code), also at the end of log.Fatal (code 1) and of a panic (code 2)
HostExit(code, by) ==
    /\ hostState' = "exited"
    /\ hostStatus' = code
    /\ hostExitBy' = by

HostInit ==
    /\ pluginState = "running"
    /\ pluginCode = 0
    /\ pluginOut = <<>>
    /\ exitedAt = ""
    /\ scanned = 0
    /\ stdoutPc = "scan"
    /\ portVal = 0
    /\ hostLog = <<>>
    /\ exitPc = "wait"
    /\ exitVal = 0
    /\ sigPc = "start"
    /\ signals = 0
    /\ mainPc = "select"
    /\ mainExitCode = 0
    /\ decided = <<>>
    /\ hostState = "running"
    /\ hostStatus = 0
    /\ hostExitBy = "none"
    /\ testIdx = 1
    /\ discover = <<>>
    /\ target = NilSchema
    /\ count = 0
    /\ checks = <<>>
    /\ comments = <<>>
    /\ results = <<>>
    /\ runErr = ""
    /\ rpcLog = <<>>
    /\ open = {}

\* no record check is being evaluated
CheckIdle ==
    /\ check = requiredRecordCheck(0, Null)
    /\ checkSt = NewCheck
    /\ checkPanic = FALSE
    /\ seen = <<>>

(***************************************************************************)
(* The Node plugin (src/unnamed/part_001: index.js followed by utils.js;   *)
(* src/plugin/node/utils.js is the earlier version of utils.js).           *)
(* Type inference: getType, getIndexOfMax and the vote of getSchema.       *)
(* A value is a sequence of one-character strings.                         *)
(***************************************************************************)
Engines == {"iso", "legacy"}
Variants == {"majority", "firstRow"}

TypeOrder == <<"integer", "number", "boolean", "datetime", "string">>

Letters == {"a", "b", "e", "f", "l", "r", "s", "t", "u",
            "A", "E", "F", "L", "R", "S", "T", "U"}

\* String.prototype.toLowerCase, one character
LowerChar(c) ==
    CASE c = "A" -> "a" [] c = "E" -> "e" [] c = "F" -> "f" [] c = "L" -> "l"
      [] c = "R" -> "r" [] c = "S" -> "s" [] c = "T" -> "t" [] c = "U" -> "u"
      [] OTHER -> c

toLowerCase(s) == [i \in 1..Len(s) |-> LowerChar(s[i])]

\* white space at both ends is skipped by Number()
RECURSIVE TrimLeft(_)
TrimLeft(s) == IF s # <<>> /\ s[1] = " " THEN TrimLeft(Tail(s)) ELSE s

RECURSIVE TrimRight(_)
TrimRight(s) ==
    IF s # <<>> /\ s[Len(s)] = " " THEN TrimRight(SubSeq(s, 1, Len(s) - 1)) ELSE s

\* !isNaN(Number(property)) for decimal literals: the empty string and
\* white space are 0; an optional sign, digits with at most one point
\* and at least one digit
NumberParses(s) ==
    LET t == TrimRight(TrimLeft(s))
        u == IF t # <<>> /\ t[1] \in {"+", "-"} THEN Tail(t) ELSE t
    IN  \/ t = <<>>
        \/ /\ \A i \in 1..Len(u) : u[i] \in DigitChars \cup {"."}
           /\ Cardinality({i \in 1..Len(u) : u[i] = "."}) <= 1
           /\ \E i \in 1..Len(u) : u[i] \in DigitChars

\* property.indexOf('.') == -1
HasNoPoint(s) == \A i \in 1..Len(s) : s[i] # "."

\* the tokens getType compares property.toLowerCase() with
BooleanTokens(v) ==
    IF v = "majority"
    THEN {<<"t", "r", "u", "e">>, <<"f", "a", "l", "s", "e">>, <<"t">>, <<"f">>}
    ELSE {<<"t", "r", "u", "e">>, <<"f", "a", "l", "s", "e">>}

\* the date format every engine has to accept: YYYY-MM-DD
IsoDate(s) ==
    /\ Len(s) = 10
    /\ s[5] = "-" /\ s[8] = "-"
    /\ \A i \in {1, 2, 3, 4, 6, 7, 9, 10} : s[i] \in DigitChars
    /\ DecimalValue(SubSeq(s, 6, 7)) \in 1..12
    /\ DecimalValue(SubSeq(s, 9, 10)) \in 1..31

\* other texts are left to the engine: a legacy parser also takes words
\* and numbers that end in a number ("5", "t 5")
LegacyDate(s) ==
    /\ s # <<>>
    /\ s[Len(s)] \in DigitChars
    /\ \A i \in 1..Len(s) : s[i] \in Letters \cup DigitChars \cup {" "}

\* !isNaN(Date.parse(property))
DateParses(s, e) == IsoDate(s) \/ (e = "legacy" /\ LegacyDate(s))

\* a getType that tries the date before the number
getTypeMutant(property) ==
    IF DateParses(property, engine) THEN "datetime"
    ELSE IF NumberParses(property)
         THEN IF HasNoPoint(property) THEN "integer" ELSE "number"
    ELSE IF toLowerCase(property) \in BooleanTokens(variant) THEN "boolean"
    ELSE "string"

getType(property) ==
    IF NumberParses(property)
    THEN IF HasNoPoint(property) THEN "integer" ELSE "number"
    ELSE IF toLowerCase(property) \in BooleanTokens(variant) THEN "boolean"
    ELSE IF DateParses(property, engine) THEN "datetime"
    ELSE "string"

\* getIndexOfMax, with indexes from 1: the first index of the largest value
RECURSIVE IndexOfMaxFrom(_, _, _)
IndexOfMaxFrom(arr, i, maxIndex) ==
    IF i > Len(arr) THEN maxIndex
    ELSE IF arr[i] > arr[maxIndex] THEN IndexOfMaxFrom(arr, i + 1, i)
    ELSE IndexOfMaxFrom(arr, i + 1, maxIndex)

\* a getIndexOfMax that keeps the last of the largest values
getIndexOfMaxMutant(arr) ==
    IF arr = <<>> THEN -1
    ELSE CHOOSE k \in 1..Len(arr) :
            /\ \A j \in 1..Len(arr) : arr[j] <= arr[k]
            /\ \A j \in (k + 1)..Len(arr) : arr[j] < arr[k]

getIndexOfMax(arr) == IF arr = <<>> THEN -1 ELSE IndexOfMaxFrom(arr, 2, 1)

\* typeCountArray[j] of getSchema for the values of column j
typeCount(col) ==
    [k \in 1..Len(TypeOrder) |->
        Cardinality({i \in 1..Len(col) : getType(col[i]) = TypeOrder[k]})]

\* the type getSchema gives a column: the vote over all rows, or, in the
\* earlier utils.js, the type of the value in the first row
columnTypeOf(col) ==
    IF variant = "majority"
    THEN TypeOrder[getIndexOfMax(typeCount(col))]
    ELSE getType(col[1])

(***************************************************************************)
(* The files the plugin can be asked for, and what glob makes of a         *)
(* pattern (the matching paths, sorted).                                   *)
(***************************************************************************)
tInt  == <<"5">>
tNum  == <<"5", ".", "0">>
tBool == <<"t">>
tDate == <<"2", "0", "1", "9", "-", "0", "1", "-", "0", "5">>
tWord == <<"a", "b">>
tFalse == <<"f", "a", "l", "s", "e">>
tEmpty == <<>>

File(base, header, rows, readable) ==
    [base |-> base, header |-> header, rows |-> rows, readable |-> readable]

Files ==
    [p \in {"animals.csv", "empty.csv", "flags.csv", "gaps.csv", "locked.csv",
            "logs.csv", "people.1.csv", "people.2.csv", "ragged.csv"} |->
       CASE p = "animals.csv" ->
              File("animals", <<"id", "name">>,
                   << <<tInt, tWord>>, <<tInt, tBool>>, <<tWord, tWord>> >>, TRUE)
         [] p = "empty.csv" ->
              File("empty", <<"id", "name">>, <<>>, TRUE)
         [] p = "flags.csv" ->
              File("flags", <<"id", "ok">>,
                   << <<tInt, tBool>>, <<tInt, tFalse>>, <<tInt, tWord>> >>, TRUE)
         [] p = "gaps.csv" ->
              File("gaps", <<"id", "count">>,
                   << <<tInt, tEmpty>>, <<tWord, tWord>>, <<tInt, tInt>> >>, TRUE)
         [] p = "ragged.csv" ->
              File("ragged", <<"id", "name">>,
                   << <<tInt>>, <<tInt, tWord>>, <<tInt, tWord, tWord>>,
                      <<tWord, tWord, tWord>>, <<tInt, tWord>> >>, TRUE)
         [] p = "locked.csv" ->
              File("locked", <<>>, <<>>, FALSE)
         [] p = "logs.csv" ->
              File("logs", <<"ts", "event">>, << <<tDate, tWord>> >>, TRUE)
         [] p = "people.1.csv" ->
              File("people", <<"id", "age">>,
                   << <<tInt, tNum>>, <<tInt, tNum>> >>, TRUE)
         [] OTHER ->
              File("people", <<"id", "age">>,
                   << <<tWord, tInt>>, <<tInt, tInt>> >>, TRUE)]

glob(pattern) ==
    CASE pattern = "animals.csv"  -> <<"animals.csv">>
      [] pattern = "people.*.csv" -> <<"people.1.csv", "people.2.csv">>
      [] pattern = "people.2.csv" -> <<"people.2.csv">>
      [] pattern = "[alp]*.csv"   -> <<"animals.csv", "logs.csv",
                                       "people.1.csv", "people.2.csv">>
      [] pattern = "e*.csv"       -> <<"empty.csv">>
      [] pattern = "lo*.csv"      -> <<"locked.csv", "logs.csv">>
      [] OTHER                    -> <<>>

Patterns == {"animals.csv", "people.*.csv", "people.2.csv", "[alp]*.csv",
             "e*.csv", "lo*.csv", "none.csv"}

\* the Discover calls a run of the plugin serves
MaxCalls == 2

(***************************************************************************)
(* getSchema and checkKnownSchemas.  A schema object is known by the call  *)
(* and the file it was made for; knownSchemas holds such references.       *)
(***************************************************************************)
\* the promise of getSchema: "pending", "resolved", or "stuck" when the
\* callback of the parse never runs or throws
Promise(st, name, inferred, properties, settings) ==
    [st |-> st, name |-> name, inferred |-> inferred,
     properties |-> properties, settings |-> settings]

PendingPromise == Promise("pending", "", <<>>, <<>>, <<>>)
StuckPromise == Promise("stuck", "", <<>>, <<>>, <<>>)

\* after: the calls that had been replied to when this one arrived
IdleCall == [state |-> "idle", pattern |-> "", after |-> {}, files |-> <<>>,
             values |-> <<>>, reply |-> <<>>]

Deref(cs, ref) == cs[ref[1]].values[ref[2]]

getPropertyNames(properties) == [i \in 1..Len(properties) |-> properties[i].name]

\* the rows' values of column j
ColumnOf(rows, j) == [i \in 1..Len(rows) |-> rows[i][j]]

\* the properties getSchema makes from the header and the rows
InferProperties(file) ==
    [j \in 1..Len(file.header) |->
        Prop(file.header[j], columnTypeOf(ColumnOf(file.rows, j)))]

\* the index in knownSchemas of the first schema with this header, or 0
RECURSIVE FindKnown(_, _, _, _)
FindKnown(cs, known, header, i) ==
    IF i > Len(known) THEN 0
    ELSE IF /\ Len(Deref(cs, known[i]).properties) = Len(header)
            /\ getPropertyNames(Deref(cs, known[i]).properties) = header
         THEN i
         ELSE FindKnown(cs, known, header, i + 1)

\* a checkKnownSchemas that finds no known schema
checkKnownSchemasMutant(cs, known, schema, header) ==
    [found |-> FALSE, output |-> schema]

\* a checkKnownSchemas that takes the known name and keeps the
\* properties made from the file
checkKnownSchemasOwnTypes(cs, known, schema, header) ==
    LET k == FindKnown(cs, known, header, 1)
    IN  IF k = 0
        THEN [found |-> FALSE, output |-> schema]
        ELSE [found |-> TRUE,
              output |-> [schema EXCEPT !.name = Deref(cs, known[k]).name]]

\* a checkKnownSchemas that also takes over the settings of the known
\* schema, before its own file
checkKnownSchemasShared(cs, known, schema, header) ==
    LET k == FindKnown(cs, known, header, 1)
    IN  IF k = 0
        THEN [found |-> FALSE, output |-> schema]
        ELSE [found |-> TRUE,
              output |-> [schema EXCEPT
                            !.name = Deref(cs, known[k]).name,
                            !.properties = Deref(cs, known[k]).properties,
                            !.settings = Deref(cs, known[k]).settings \o @]]

\* checkKnownSchemas: the schema takes the name and properties of the
\* known schema with its header, if any
checkKnownSchemas(cs, known, schema, header) ==
    LET k == FindKnown(cs, known, header, 1)
    IN  IF k = 0
        THEN [found |-> FALSE, output |-> schema]
        ELSE [found |-> TRUE,
              output |-> [schema EXCEPT
                            !.name = Deref(cs, known[k]).name,
                            !.properties = Deref(cs, known[k]).properties]]

(***************************************************************************)
(* Discover: the loop that puts the schemas of equal properties together.  *)
(* out is a sequence of indexes into values; settings[i] the settings of   *)
(* the object values[i].                                                   *)
(***************************************************************************)
\* a search that never finds an equal schema in output
FindEqualMutant(values, out, i, j) == 0

\* the first j with areEqualArray(output[j].properties, values[i].properties)
RECURSIVE FindEqual(_, _, _, _)
FindEqual(values, out, i, j) ==
    IF j > Len(out) THEN 0
    ELSE IF values[out[j]].properties = values[i].properties THEN j
    ELSE FindEqual(values, out, i, j + 1)

RECURSIVE Dedup(_, _, _)
Dedup(values, i, acc) ==
    IF i > Len(values) THEN acc
    ELSE LET j == FindEqual(values, acc.out, i, 1)
         IN  IF j = 0
             THEN Dedup(values, i + 1, [acc EXCEPT !.out = Append(@, i)])
             ELSE Dedup(values, i + 1,
                        [acc EXCEPT !.settings[acc.out[j]] =
                                       Append(@, values[i].settings[1])])

Deduped(values) ==
    Dedup(values, 1, [out |-> <<>>,
                      settings |-> [i \in 1..Len(values) |-> values[i].settings]])

(***************************************************************************)
(* Publish: convertToType, checkValidTypes and the records publishFile     *)
(* writes for the rows of a file.                                          *)
(***************************************************************************)
\* the values of JavaScript convertToType returns (n: the integer part of
\* a number, or 1 for true; s: the digits after the point, the characters
\* of a string, or the day of a Date)
JsValue(k, n, s) == [k |-> k, n |-> n, s |-> s]
JsNumber(n, fraction) == JsValue("number", n, fraction)
JsNaN == JsValue("NaN", 0, <<>>)
JsBoolean(b) == JsValue("boolean", IF b THEN 1 ELSE 0, <<>>)
JsString(s) == JsValue("string", 0, s)
JsDate(day) == JsValue("date", 0, day)
JsInvalidDate == JsValue("invalidDate", 0, <<>>)
JsUndefined == JsValue("undefined", 0, <<>>)
JsNull == JsValue("null", 0, <<>>)

RECURSIVE DigitPrefix(_)
DigitPrefix(s) ==
    IF s # <<>> /\ s[1] \in DigitChars THEN <<s[1]>> \o DigitPrefix(Tail(s)) ELSE <<>>

RECURSIVE StripZeros(_)
StripZeros(s) ==
    IF s # <<>> /\ s[Len(s)] = "0" THEN StripZeros(SubSeq(s, 1, Len(s) - 1)) ELSE s

\* parseInt(data): white space, a sign, then the longest run of digits
parseInt(data) ==
    LET t      == TrimLeft(data)
        signed == t # <<>> /\ t[1] \in {"+", "-"}
        ds     == DigitPrefix(IF signed THEN Tail(t) ELSE t)
    IN  IF ds = <<>> THEN JsNaN
        ELSE JsNumber(IF signed /\ t[1] = "-" THEN 0 - DecimalValue(ds)
                      ELSE DecimalValue(ds), <<>>)

\* parseFloat(data): white space, a sign, then the longest decimal literal
parseFloat(data) ==
    LET t      == TrimLeft(data)
        signed == t # <<>> /\ t[1] \in {"+", "-"}
        u      == IF signed THEN Tail(t) ELSE t
        ds     == DigitPrefix(u)
        rest   == SubSeq(u, Len(ds) + 1, Len(u))
        fs     == IF rest # <<>> /\ rest[1] = "." THEN DigitPrefix(Tail(rest)) ELSE <<>>
    IN  IF ds = <<>> /\ fs = <<>> THEN JsNaN
        ELSE JsNumber(IF signed /\ t[1] = "-" THEN 0 - DecimalValue(ds)
                      ELSE DecimalValue(ds), StripZeros(fs))

\* the day a legacy parser makes of a text that is no ISO date
EngineDay == <<"?">>

\* new Date(data), then setUTCHours(0, 0, 0, 0)
NewDate(data) ==
    IF IsoDate(data) THEN JsDate(data)
    ELSE IF engine = "legacy" /\ LegacyDate(data) THEN JsDate(EngineDay)
    ELSE JsInvalidDate

\* convertToType: for boolean the result is whether data is one of the
\* tokens, the false ones included
convertToType(data, type) ==
    CASE type = "integer"  -> parseInt(data)
      [] type = "number"   -> parseFloat(data)
      [] type = "boolean"  -> JsBoolean(toLowerCase(data) \in BooleanTokens(variant))
      [] type = "datetime" -> NewDate(data)
      [] type = "string"   -> JsString(data)
      [] OTHER             -> JsUndefined

\* what Date.prototype.toJSON appends to the day
TimeSuffix == <<"T", "0", "0", ":", "0", "0", ":", "0", "0", ".", "0", "0", "0", "Z">>

\* JSON.stringify of the row: NaN, undefined and an invalid Date become
\* null, a Date becomes its ISO text
JSONstringify(row) ==
    [j \in 1..Len(row) |->
        CASE row[j].k \in {"NaN", "undefined", "invalidDate", "null"} -> JsNull
          [] row[j].k = "date" -> JsString(row[j].s \o TimeSuffix)
          [] OTHER -> row[j]]

getPropertyTypes(properties) == [j \in 1..Len(properties) |-> properties[j].type]

\* index: null
NoIndex == -1

\* the template string of checkValidTypes
ErrorText(expected, got) == <<"Expected type: ", expected, " but got type: ", got>>

ValidCheck(error, index, invalid, threw) ==
    [error |-> error, index |-> index, invalid |-> invalid, threw |-> threw]

\* the cells checkValidTypes stops at: one whose own type is not the
\* declared one, or one that has no declared type (types[i] is undefined)
Mismatches(properties, types) ==
    {i \in 1..Len(properties) :
        i > Len(types) \/ getType(properties[i]) # types[i].type}

\* a checkValidTypes that takes an integer cell in a number column
checkValidTypesMutant(properties, types) ==
    LET bad == {i \in Mismatches(properties, types) :
                   i > Len(types) \/
                   ~(types[i].type = "number" /\ getType(properties[i]) = "integer")}
    IN  IF bad = {} THEN ValidCheck(<<>>, NoIndex, FALSE, FALSE)
        ELSE LET i == CHOOSE m \in bad : \A n \in bad : m <= n
             IN  IF i > Len(types) THEN ValidCheck(<<>>, NoIndex, FALSE, TRUE)
                 ELSE ValidCheck(ErrorText(types[i].type, getType(properties[i])),
                                 i - 1, TRUE, FALSE)

\* checkValidTypes(properties, types); index counts from 0 as in the code;
\* threw: types[i].type was read with types[i] undefined
checkValidTypes(properties, types) ==
    LET bad == Mismatches(properties, types)
    IN  IF bad = {} THEN ValidCheck(<<>>, NoIndex, FALSE, FALSE)
        ELSE LET i == CHOOSE m \in bad : \A n \in bad : m <= n
             IN  IF i > Len(types) THEN ValidCheck(<<>>, NoIndex, FALSE, TRUE)
                 ELSE ValidCheck(ErrorText(types[i].type, getType(properties[i])),
                                 i - 1, TRUE, FALSE)

\* what call.write is given for row k of the file at path; file and row
\* only say where the record comes from
WrittenRecord(row, properties, path, k) ==
    LET validCheck == checkValidTypes(row, properties)
        types      == getPropertyTypes(properties)
        converted  == [j \in 1..Len(row) |->
                         IF j - 1 = validCheck.index THEN JsNull
                         ELSE convertToType(row[j],
                                 IF j <= Len(types) THEN types[j] ELSE "undefined")]
    IN  [invalid |-> validCheck.invalid, error |-> validCheck.error,
         data |-> JSONstringify(converted), file |-> path, row |-> k, end |-> FALSE]

\* call.end()
EndOfStream ==
    [invalid |-> FALSE, error |-> <<>>, data |-> <<>>, file |-> "", row |-> 0,
     end |-> TRUE]

\* a publishFile that has no test of the row's length in either version
RowIsPublishedMutant(row, types) == TRUE

\* if (row.length == types.length), which the earlier utils.js lacks
RowIsPublished(row, types) == variant = "firstRow" \/ Len(row) = Len(types)

\* the loop over the rows in publishFile, from row k on: the records
\* written, and whether resolve() is reached
RECURSIVE publishRows(_, _, _, _)
publishRows(rows, k, properties, path) ==
    IF k > Len(rows) THEN [written |-> <<>>, resolved |-> TRUE]
    ELSE IF ~RowIsPublished(rows[k], getPropertyTypes(properties))
         THEN publishRows(rows, k + 1, properties, path)
    ELSE IF checkValidTypes(rows[k], properties).threw
         THEN [written |-> <<>>, resolved |-> FALSE]
    ELSE LET rest == publishRows(rows, k + 1, properties, path)
         IN  [written  |-> <<WrittenRecord(rows[k], properties, path, k)>> \o rest.written,
              resolved |-> rest.resolved]

\* the Publish calls a run of the plugin serves
MaxPublish == 2

Request(properties, settings) == [properties |-> properties, settings |-> settings]

\* call.request.schema of the Publish calls; settings is the list
\* schema.settings.split(',') returns
PublishRequests ==
    { Request(<<Prop("id", "integer"), Prop("age", "number")>>,
              <<"people.1.csv", "people.2.csv">>),
      Request(<<Prop("id", "integer"), Prop("name", "string")>>,
              <<"ragged.csv", "animals.csv">>),
      Request(<<Prop("ts", "datetime"), Prop("event", "string")>>,
              <<"locked.csv", "logs.csv">>),
      Request(<<Prop("id", "integer"), Prop("ok", "boolean")>>,
              <<"flags.csv">>),
      Request(<<Prop("id", "integer"), Prop("count", "integer")>>,
              <<"gaps.csv">>) }

IdlePublish ==
    [state |-> "idle", request |-> Request(<<>>, <<>>), promises |-> <<>>,
     stream |-> <<>>]

PubIdle ==
    /\ pubs = [p \in 1..MaxPublish |-> IdlePublish]
    /\ nodeExit = -1

(***************************************************************************)
(* The plugin's process: main(), then the callbacks of the event loop,     *)
(* each of which runs to its end before the next one starts.               *)
(***************************************************************************)
InferIdle ==
    /\ engine = "iso"
    /\ variant = "majority"
    /\ text = <<>>
    /\ typeOf = ""
    /\ column = <<>>
    /\ columnType = ""

NodeIdle ==
    /\ nodePc = "main"
    /\ nodeFirst = ""
    /\ nodePortLines = 0
    /\ knownSchemas = <<>>
    /\ calls = [c \in 1..MaxCalls |-> IdleCall]

Init == HostInit /\ CheckIdle /\ InferIdle /\ NodeIdle /\ PubIdle

\* console.log: kind is "port" for the port line, "log" for any other
ConsoleLog(kind) ==
    /\ nodeFirst' = IF nodeFirst = "" THEN kind ELSE nodeFirst
    /\ nodePortLines' = IF kind = "port" THEN nodePortLines + 1 ELSE nodePortLines

\* a main that starts the server and leaves the port line out
NodeMainMutant ==
    /\ nodePc = "main"
    /\ nodePc' = "serving"
    /\ UNCHANGED <<nodeFirst, nodePortLines, knownSchemas, calls>>
    /\ UNCHANGED <<hostSide, inferVars, pubVars>>

\* main(): server.bind, server.start, console.log(PORT)
NodeMain ==
    /\ nodePc = "main"
    /\ nodePc' = "serving"
    /\ ConsoleLog("port")
    /\ UNCHANGED <<knownSchemas, calls>>
    /\ UNCHANGED <<hostSide, inferVars, pubVars>>

\* Discover(call, callback) up to the call of glob
DiscoverStart(c) ==
    /\ nodePc = "serving"
    /\ calls[c].state = "idle"
    /\ IF c = 1 THEN TRUE ELSE calls[c - 1].state # "idle"
    /\ \E pattern \in Patterns :
          calls' = [calls EXCEPT ![c] =
                       [IdleCall EXCEPT
                          !.state = "glob",
                          !.pattern = pattern,
                          !.after = {b \in 1..MaxCalls : calls[b].state = "replied"}]]
    /\ ConsoleLog("log")
    /\ UNCHANGED <<nodePc, knownSchemas>>
    /\ UNCHANGED <<hostSide, inferVars, pubVars>>

\* the callback of glob: getSchema is started for every file found, and
\* Promise.all waits for all of them
GlobDone(c) ==
    /\ nodePc = "serving"
    /\ calls[c].state = "glob"
    /\ LET files == glob(calls[c].pattern)
       IN  calls' = [calls EXCEPT ![c].state = "parsing",
                                  ![c].files = files,
                                  ![c].values = [i \in 1..Len(files) |-> PendingPromise]]
    /\ ConsoleLog("log")
    /\ UNCHANGED <<nodePc, knownSchemas>>
    /\ UNCHANGED <<hostSide, inferVars, pubVars>>

\* the parse of file i of call c ends.  A file that cannot be read rejects
\* the promise of csvtojson and the callback never runs; with no data row
\* Object.keys(data[0]) throws: either way getSchema's promise stays
\* pending for ever.  Otherwise the callback makes the schema, looks it up
\* in knownSchemas and resolves the promise.
ParseDone(c, i) ==
    /\ nodePc = "serving"
    /\ calls[c].state = "parsing"
    /\ i \in 1..Len(calls[c].values)
    /\ calls[c].values[i].st = "pending"
    /\ LET path == calls[c].files[i]
           file == Files[path]
       IN  IF ~file.readable \/ file.rows = <<>>
           THEN /\ calls' = [calls EXCEPT ![c].values[i] = StuckPromise]
                /\ UNCHANGED <<knownSchemas, nodeFirst, nodePortLines>>
           ELSE \E properties \in {InferProperties(file)} :
                \E known \in {checkKnownSchemas(calls, knownSchemas,
                                   Promise("resolved", file.base, properties,
                                           properties, <<path>>),
                                   file.header)} :
                   /\ calls' = [calls EXCEPT ![c].values[i] = known.output]
                   /\ knownSchemas' = IF known.found THEN knownSchemas
                                      ELSE Append(knownSchemas, <<c, i>>)
                   /\ ConsoleLog("log")
    /\ UNCHANGED nodePc
    /\ UNCHANGED <<hostSide, inferVars, pubVars>>

\* a Promise.all that is never resolved for an empty list of promises
DiscoverCallbackMutant(c) ==
    /\ nodePc = "serving"
    /\ calls[c].state = "parsing"
    /\ calls[c].values # <<>>
    /\ \A i \in 1..Len(calls[c].values) : calls[c].values[i].st = "resolved"
    /\ \E d \in {Deduped(calls[c].values)} :
          LET values == calls[c].values
          IN  calls' = [calls EXCEPT
                          ![c].state = "replied",
                          ![c].values = [i \in 1..Len(values) |->
                                           [values[i] EXCEPT !.settings = d.settings[i]]],
                          ![c].reply = [j \in 1..Len(d.out) |->
                                          [name |-> values[d.out[j]].name,
                                           properties |-> values[d.out[j]].properties,
                                           settings |-> d.settings[d.out[j]]]]]
    /\ ConsoleLog("log")
    /\ UNCHANGED <<nodePc, knownSchemas>>
    /\ UNCHANGED <<hostSide, inferVars, pubVars>>

\* the callback of Promise.all: equal schemas are put together and the
\* reply is sent
DiscoverCallback(c) ==
    /\ nodePc = "serving"
    /\ calls[c].state = "parsing"
    /\ \A i \in 1..Len(calls[c].values) : calls[c].values[i].st = "resolved"
    /\ \E d \in {Deduped(calls[c].values)} :
          LET values == calls[c].values
          IN  calls' = [calls EXCEPT
                          ![c].state = "replied",
                          ![c].values = [i \in 1..Len(values) |->
                                           [values[i] EXCEPT !.settings = d.settings[i]]],
                          ![c].reply = [j \in 1..Len(d.out) |->
                                          [name |-> values[d.out[j]].name,
                                           properties |-> values[d.out[j]].properties,
                                           settings |-> d.settings[d.out[j]]]]]
    /\ ConsoleLog("log")
    /\ UNCHANGED <<nodePc, knownSchemas>>
    /\ UNCHANGED <<hostSide, inferVars, pubVars>>

NodeInit ==
    /\ HostInit
    /\ CheckIdle
    /\ NodeIdle
    /\ PubIdle
    /\ engine \in Engines
    /\ variant \in Variants
    /\ text = <<>>
    /\ typeOf = ""
    /\ column = <<>>
    /\ columnType = ""

NodeNext ==
    \/ NodeMain
    \/ \E c \in 1..MaxCalls : DiscoverStart(c)
    \/ \E c \in 1..MaxCalls : GlobDone(c)
    \/ \E c \in 1..MaxCalls : \E i \in 1..4 : ParseDone(c, i)
    \/ \E c \in 1..MaxCalls : DiscoverCallback(c)

NodeSpec == NodeInit /\ [][NodeNext]_vars

\* The event loop runs a callback that is ready: that of glob, and that
\* of Promise.all once all its promises are resolved.
NodeFairSpec ==
    /\ NodeSpec
    /\ \A c \in 1..MaxCalls : WF_vars(GlobDone(c)) /\ WF_vars(DiscoverCallback(c))

(***************************************************************************)
(* The Publish handler, the callbacks of its parses and the handler of     *)
(* SIGINT.                                                                 *)
(***************************************************************************)
\* Publish(call, callback): publishFile is started for every file of
\* schema.settings, and Promise.all waits for all of them
Publish(p) ==
    /\ nodePc = "serving"
    /\ pubs[p].state = "idle"
    /\ IF p = 1 THEN TRUE ELSE pubs[p - 1].state # "idle"
    /\ \E request \in PublishRequests :
          pubs' = [pubs EXCEPT ![p] =
                     [state |-> "open", request |-> request,
                      promises |-> [i \in 1..Len(request.settings) |-> "pending"],
                      stream |-> <<>>]]
    /\ ConsoleLog("log")
    /\ UNCHANGED <<nodePc, knownSchemas, calls, nodeExit>>
    /\ UNCHANGED <<hostSide, inferVars>>

\* a publishFile that writes each record as soon as its row is parsed,
\* one row a step, and resolves after the last
publishFileMutant(p, i) ==
    /\ nodePc = "serving"
    /\ pubs[p].state = "open"
    /\ i \in 1..Len(pubs[p].promises)
    /\ pubs[p].promises[i] = "pending"
    /\ LET path == pubs[p].request.settings[i]
           file == Files[path]
           done == Cardinality({m \in 1..Len(pubs[p].stream) :
                                   pubs[p].stream[m].file = path})
       IN  IF ~file.readable
           THEN pubs' = [pubs EXCEPT ![p].promises[i] = "stuck"]
           ELSE \E out \in {publishRows(file.rows, 1, pubs[p].request.properties, path)} :
                   IF done < Len(out.written)
                   THEN pubs' = [pubs EXCEPT
                                   ![p].stream = Append(pubs[p].stream,
                                                        out.written[done + 1])]
                   ELSE pubs' = [pubs EXCEPT
                                   ![p].promises[i] = IF out.resolved THEN "resolved"
                                                      ELSE "stuck"]
    /\ UNCHANGED <<nodeVars, nodeExit>>
    /\ UNCHANGED <<hostSide, inferVars>>

\* the parse publishFile started for file i of call p ends.  A file that
\* cannot be read rejects the promise of csvtojson and the callback never
\* runs, so publishFile's promise stays pending for ever; otherwise the
\* callback writes the records of all rows, one after the other, and
\* resolves the promise unless checkValidTypes threw.
publishFile(p, i) ==
    /\ nodePc = "serving"
    /\ pubs[p].state = "open"
    /\ i \in 1..Len(pubs[p].promises)
    /\ pubs[p].promises[i] = "pending"
    /\ LET path == pubs[p].request.settings[i]
           file == Files[path]
       IN  IF ~file.readable
           THEN pubs' = [pubs EXCEPT ![p].promises[i] = "stuck"]
           ELSE \E out \in {publishRows(file.rows, 1, pubs[p].request.properties, path)} :
                   pubs' = [pubs EXCEPT
                              ![p].promises[i] = IF out.resolved THEN "resolved"
                                                 ELSE "stuck",
                              ![p].stream = pubs[p].stream \o out.written]
    /\ UNCHANGED <<nodeVars, nodeExit>>
    /\ UNCHANGED <<hostSide, inferVars>>

\* a Promise.all that is resolved as soon as one of the promises is
PublishFinishedMutant(p) ==
    /\ nodePc = "serving"
    /\ pubs[p].state = "open"
    /\ \E i \in 1..Len(pubs[p].promises) : pubs[p].promises[i] = "resolved"
    /\ \A j \in 1..Len(pubs[p].stream) : ~pubs[p].stream[j].end
    /\ pubs' = [pubs EXCEPT ![p].stream = Append(pubs[p].stream, EndOfStream)]
    /\ ConsoleLog("log")
    /\ UNCHANGED <<nodePc, knownSchemas, calls, nodeExit>>
    /\ UNCHANGED <<hostSide, inferVars>>

\* the callback of Promise.all: call.end()
PublishFinished(p) ==
    /\ nodePc = "serving"
    /\ pubs[p].state = "open"
    /\ \A i \in 1..Len(pubs[p].promises) : pubs[p].promises[i] = "resolved"
    /\ pubs' = [pubs EXCEPT ![p].state = "ended",
                            ![p].stream = Append(pubs[p].stream, EndOfStream)]
    /\ ConsoleLog("log")
    /\ UNCHANGED <<nodePc, knownSchemas, calls, nodeExit>>
    /\ UNCHANGED <<hostSide, inferVars>>

\* a handler of SIGINT that only logs
SigintMutant ==
    /\ nodePc = "serving"
    /\ nodeExit = -1
    /\ nodeExit' = 0
    /\ ConsoleLog("log")
    /\ UNCHANGED <<nodePc, knownSchemas, calls, pubs>>
    /\ UNCHANGED <<hostSide, inferVars>>

\* process.on('SIGINT'): console.log, process.exit(0).  The handler is a
\* callback of the event loop like the others.
Sigint ==
    /\ nodePc = "serving"
    /\ nodePc' = "exited"
    /\ nodeExit' = 0
    /\ ConsoleLog("log")
    /\ UNCHANGED <<knownSchemas, calls, pubs>>
    /\ UNCHANGED <<hostSide, inferVars>>

PubNext ==
    \/ NodeMain
    \/ \E p \in 1..MaxPublish : Publish(p)
    \/ \E p \in 1..MaxPublish : \E i \in 1..2 : publishFile(p, i)
    \/ \E p \in 1..MaxPublish : PublishFinished(p)
    \/ Sigint

PubSpec == NodeInit /\ [][PubNext]_vars

(***************************************************************************)
(* getType and the type vote on their own, applied to bounded inputs.      *)
(***************************************************************************)
\* the longest value made of TextChars, and the longest column
MaxText == 3
MaxRows == 3

TextChars == {"5", ".", "-", "t", "F", " "}

SampleTexts == {tNum, tDate, tWord,
                <<"t", "r", "u", "e">>, <<"F", "a", "l", "s", "e">>,
                <<"T", "R", "U", "E">>, <<"t", " ", "5">>,
                <<"2", "0", "1", "9", "-", "1", "3", "-", "0", "5">>}

Texts == UNION {[1..n -> TextChars] : n \in 0..MaxText} \cup SampleTexts

ColumnTexts == {tInt, tNum, tBool, tDate, tWord, <<>>}

Columns == UNION {[1..n -> ColumnTexts] : n \in 1..MaxRows}

\* getType(property) is called with the value drawn
Classify ==
    /\ column = <<>>
    /\ typeOf = ""
    /\ typeOf' = getType(text)
    /\ UNCHANGED <<engine, variant, text, column, columnType>>
    /\ UNCHANGED <<hostSide, nodeVars, pubVars>>

\* getSchema counts the types of the values of the column drawn and picks
\* the column's type
Vote ==
    /\ column # <<>>
    /\ columnType = ""
    /\ columnType' = columnTypeOf(column)
    /\ UNCHANGED <<engine, variant, text, typeOf, column>>
    /\ UNCHANGED <<hostSide, nodeVars, pubVars>>

TypeInit ==
    /\ HostInit
    /\ CheckIdle
    /\ NodeIdle
    /\ PubIdle
    /\ engine \in Engines
    /\ variant \in Variants
    /\ typeOf = ""
    /\ columnType = ""
    /\ \/ text \in Texts /\ column = <<>>
       \/ text = <<>> /\ column \in Columns

TypeNext == Classify \/ Vote

TypeSpec == TypeInit /\ [][TypeNext]_vars

(***************************************************************************)
(* The plugin process, as far as the host sees it: it writes lines to its  *)
(* standard output and may exit by itself with any status.                 *)
(***************************************************************************)
PluginWrite ==
    /\ Running
    /\ pluginState = "running"
    /\ Len(pluginOut) < MaxLines
    /\ \E l \in (IF pluginOut = <<>> THEN FirstLines
                  ELSE {LaterLine(Len(pluginOut) + 1)}) :
           pluginOut' = Append(pluginOut, l)
    /\ UNCHANGED <<pluginState, pluginCode, exitedAt>>
    /\ UNCHANGED <<stdoutVars, exitVars, sigVars, mainVars, hostVars, testVars>>
    /\ UNCHANGED <<pluginSide, checkVars>>

PluginExit ==
    /\ Running
    /\ pluginState = "running"
    /\ \E c \in {0, 1} :
           /\ pluginState' = "exited"
           /\ pluginCode' = c
    /\ exitedAt' = Phase
    /\ UNCHANGED pluginOut
    /\ UNCHANGED <<stdoutVars, exitVars, sigVars, mainVars, hostVars, testVars>>
    /\ UNCHANGED <<pluginSide, checkVars>>

(***************************************************************************)
(* monitorStdout: the first line is the port, the rest is forwarded.       *)
(***************************************************************************)
\* scanner.Scan(); strconv.Atoi(scanner.Text()); log.Fatalf on an error
StdoutScanFirst ==
    /\ Running
    /\ stdoutPc = "scan"
    /\ scanned < Len(pluginOut)
    /\ LET r == Atoi(pluginOut[1])
       IN  IF ~r.ok
           THEN /\ HostExit(1, "badPort")
                /\ UNCHANGED <<stdoutPc, portVal>>
           ELSE /\ portVal' = r.val
                /\ stdoutPc' = "sendPort"
                /\ UNCHANGED hostVars
    /\ scanned' = 1
    /\ UNCHANGED <<hostLog, plugVars, exitVars, sigVars, mainVars, testVars>>
    /\ UNCHANGED <<pluginSide, checkVars>>

\* a loop that prints the line scanned before instead of the new one
StdoutForwardMutant ==
    /\ Running
    /\ stdoutPc = "forward"
    /\ scanned < Len(pluginOut)
    /\ hostLog' = Append(hostLog, pluginOut[scanned])
    /\ scanned' = scanned + 1
    /\ UNCHANGED <<stdoutPc, portVal, plugVars, exitVars, sigVars, mainVars, hostVars, testVars>>
    /\ UNCHANGED <<pluginSide, checkVars>>

\* for scanner.Scan() { pluginLog.Print(scanner.Text()) }
StdoutForward ==
    /\ Running
    /\ stdoutPc = "forward"
    /\ scanned < Len(pluginOut)
    /\ hostLog' = Append(hostLog, pluginOut[scanned + 1])
    /\ scanned' = scanned + 1
    /\ UNCHANGED <<stdoutPc, portVal, plugVars, exitVars, sigVars, mainVars, hostVars, testVars>>
    /\ UNCHANGED <<pluginSide, checkVars>>

(***************************************************************************)
(* monitorExit                                                             *)
(***************************************************************************)
\* err.(*exec.ExitError): cmd.Wait returns nil for exit status 0 and an
\* *exec.ExitError for every other way the process ended
WaitErrIsExitErrorMutant(code) == TRUE

WaitErrIsExitError(code) == code # 0

\* err := cmd.Wait()
ExitWait ==
    /\ Running
    /\ exitPc = "wait"
    /\ pluginState = "exited"
    /\ exitPc' = "waited"
    /\ UNCHANGED <<exitVal, plugVars, stdoutVars, sigVars, mainVars, hostVars, testVars>>
    /\ UNCHANGED <<pluginSide, checkVars>>

\* exitErr, ok := err.(*exec.ExitError); if !ok { log.Fatalf(...) }
ExitClassify ==
    /\ Running
    /\ exitPc = "waited"
    /\ IF ~WaitErrIsExitError(pluginCode)
       THEN /\ HostExit(1, "monitorExitFatal")
            /\ UNCHANGED exitVars
       ELSE /\ exitVal' = pluginCode
            /\ exitPc' = "send1"
            /\ UNCHANGED hostVars
    /\ UNCHANGED <<plugVars, stdoutVars, sigVars, mainVars, testVars>>
    /\ UNCHANGED <<pluginSide, checkVars>>

(***************************************************************************)
(* handleUserExit                                                          *)
(***************************************************************************)
\* signal.Notify(sigCh, os.Kill, os.Interrupt); sig := <-sigCh (blocks)
SigNotify ==
    /\ Running
    /\ sigPc = "start"
    /\ sigPc' = "waiting"
    /\ UNCHANGED <<signals, plugVars, stdoutVars, exitVars, mainVars, hostVars, testVars>>
    /\ UNCHANGED <<pluginSide, checkVars>>

\* An interrupt is delivered to the host.  Before signal.Notify the Go
\* runtime's default action ends the process (status 128+2); with the
\* handler blocked in the receive the signal is handed to it; later the
\* unbuffered channel has no receiver and the signal is dropped.
SignalArrive ==
    /\ Running
    /\ signals < MaxSignals
    /\ signals' = signals + 1
    /\ IF sigPc = "start"
       THEN /\ HostExit(130, "signalDefault")
            /\ UNCHANGED sigPc
       ELSE /\ sigPc' = IF sigPc = "waiting" THEN "gotSig" ELSE sigPc
            /\ UNCHANGED hostVars
    /\ UNCHANGED <<plugVars, stdoutVars, exitVars, mainVars, testVars>>
    /\ UNCHANGED <<pluginSide, checkVars>>

\* log.Printf("user exit: %s", sig); cmd.Process.Kill()
HandlerKill ==
    /\ Running
    /\ sigPc = "gotSig"
    /\ sigPc' = "killed"
    /\ IF pluginState = "running"
       THEN /\ pluginState' = "exited"
            /\ pluginCode' = -1
            /\ exitedAt' = Phase
       ELSE UNCHANGED <<pluginState, pluginCode, exitedAt>>
    /\ UNCHANGED <<pluginOut, signals, stdoutVars, exitVars, mainVars, hostVars, testVars>>
    /\ UNCHANGED <<pluginSide, checkVars>>

\* os.Exit(0)
HandlerExit ==
    /\ Running
    /\ sigPc = "killed"
    /\ HostExit(0, "signal")
    /\ UNCHANGED <<plugVars, stdoutVars, exitVars, sigVars, mainVars, testVars>>
    /\ UNCHANGED <<pluginSide, checkVars>>

(***************************************************************************)
(* main: the startup select                                                *)
(***************************************************************************)
\* a timer that is not tied to the select: it also fires after the select
MainTimeoutMutant ==
    /\ Running
    /\ mainPc # "timeoutBranch"
    /\ mainPc' = "timeoutBranch"
    /\ decided' = Append(decided, "timeout")
    /\ UNCHANGED <<mainExitCode, plugVars, stdoutVars, exitVars, sigVars, hostVars, testVars>>
    /\ UNCHANGED <<pluginSide, checkVars>>

\* case <-time.After(pluginStartupTimeout):
MainTimeout ==
    /\ Running
    /\ mainPc = "select"
    /\ mainPc' = "timeoutBranch"
    /\ decided' = Append(decided, "timeout")
    /\ UNCHANGED <<mainExitCode, plugVars, stdoutVars, exitVars, sigVars, hostVars, testVars>>
    /\ UNCHANGED <<pluginSide, checkVars>>

\* log.Fatalf("did not get a port from the plugin within timeout of %s", ...)
MainTimeoutFatal ==
    /\ Running
    /\ mainPc = "timeoutBranch"
    /\ HostExit(1, "timeout")
    /\ UNCHANGED <<plugVars, stdoutVars, exitVars, sigVars, mainVars, testVars>>
    /\ UNCHANGED <<pluginSide, checkVars>>

\* case exitCode := <-exitCh: the rendezvous with monitorExit's
\* exitCh <- status.ExitStatus(), or with its following exitCh <- 0
MainRecvExit ==
    /\ Running
    /\ mainPc = "select"
    /\ exitPc \in {"send1", "send2"}
    /\ mainExitCode' = IF exitPc = "send1" THEN exitVal ELSE 0
    /\ exitPc' = IF exitPc = "send1" THEN "send2" ELSE "done"
    /\ mainPc' = "exitBranch"
    /\ decided' = Append(decided, "exit")
    /\ UNCHANGED <<exitVal, plugVars, stdoutVars, sigVars, hostVars, testVars>>
    /\ UNCHANGED <<pluginSide, checkVars>>

\* if exitCode != 0 { log.Fatalf(...) }; os.Exit(exitCode)
MainExitBranch ==
    /\ Running
    /\ mainPc = "exitBranch"
    /\ IF mainExitCode # 0
       THEN HostExit(1, "exitBranchFatal")
       ELSE HostExit(mainExitCode, "exitBranchExit")
    /\ UNCHANGED <<plugVars, stdoutVars, exitVars, sigVars, mainVars, testVars>>
    /\ UNCHANGED <<pluginSide, checkVars>>

\* case port := <-portCh: the rendezvous with monitorStdout's portCh <- port
MainRecvPort ==
    /\ Running
    /\ mainPc = "select"
    /\ stdoutPc = "sendPort"
    /\ stdoutPc' = "forward"
    /\ mainPc' = "dial"
    /\ decided' = Append(decided, "port")
    /\ UNCHANGED <<mainExitCode, scanned, portVal, hostLog>>
    /\ UNCHANGED <<plugVars, exitVars, sigVars, hostVars, testVars>>
    /\ UNCHANGED <<pluginSide, checkVars>>

(***************************************************************************)
(* runTests and standardTestCase.execute                                   *)
(***************************************************************************)
FailCount(rs) == Cardinality({i \in 1..Len(rs) : rs[i].err # ""})

\* a loop that stops at the first failed test case
FinishTestMutant(err, end, n) ==
    LET rs == Append(results, [test |-> testIdx, err |-> err,
                               streamEnd |-> end, count |-> n])
    IN  /\ results' = rs
        /\ testIdx' = testIdx + 1
        /\ IF testIdx = Len(tests) \/ err # ""
           THEN /\ mainPc' = "return"
                /\ runErr' = IF FailCount(rs) = 0 THEN "" ELSE "failed"
           ELSE /\ mainPc' = "discover"
                /\ UNCHANGED runErr
        /\ target' = NilSchema
        /\ count' = 0
        /\ comments' = <<>>

\* execute returns result: runTests counts a failure, appends the result
\* and goes on with the next test case; after the last one it prints the
\* results and returns nil or errors.New("failed")
FinishTest(err, end, n) ==
    LET rs == Append(results, [test |-> testIdx, err |-> err,
                               streamEnd |-> end, count |-> n])
    IN  /\ results' = rs
        /\ testIdx' = testIdx + 1
        /\ IF testIdx = Len(tests)
           THEN /\ mainPc' = "return"
                /\ runErr' = IF FailCount(rs) = 0 THEN "" ELSE "failed"
           ELSE /\ mainPc' = "discover"
                /\ UNCHANGED runErr
        /\ target' = NilSchema
        /\ count' = 0
        /\ comments' = <<>>

\* conn, err := grpc.DialContext(...); if err != nil { return ... }
Dial ==
    /\ Running
    /\ mainPc = "dial"
    /\ \/ /\ DialCanSucceed(portVal, pluginState)
          /\ mainPc' = "discover"
          /\ UNCHANGED runErr
       \/ /\ mainPc' = "return"
          /\ runErr' = "connection failed"
    /\ UNCHANGED <<mainExitCode, decided, testIdx, discover, target, count,
                   checks, comments, results, rpcLog, open>>
    /\ UNCHANGED <<plugVars, stdoutVars, exitVars, sigVars, hostVars>>
    /\ UNCHANGED <<pluginSide, checkVars>>

\* t.execute(client) up to client.Discover(ctx, ...) being issued
DiscoverCall ==
    /\ Running
    /\ mainPc = "discover"
    /\ mainPc' = "discovering"
    /\ rpcLog' = Append(rpcLog, [op |-> "Discover", test |-> testIdx])
    /\ open' = open \cup {[op |-> "Discover", test |-> testIdx]}
    /\ checks' = [i \in 1..Len(tests[testIdx].recordChecks) |-> NewCheck]
    /\ discover' = <<>>
    /\ UNCHANGED <<mainExitCode, decided, testIdx, target, count,
                   comments, results, runErr>>
    /\ UNCHANGED <<plugVars, stdoutVars, exitVars, sigVars, hostVars>>
    /\ UNCHANGED <<pluginSide, checkVars>>

\* a Discover that is given up on while the call stays open
DiscoverFailMutant ==
    /\ Running
    /\ mainPc = "discovering"
    /\ FinishTest("discovery failed", "none", 0)
    /\ UNCHANGED open
    /\ UNCHANGED <<mainExitCode, decided, discover, checks, rpcLog>>
    /\ UNCHANGED <<plugVars, stdoutVars, exitVars, sigVars, hostVars>>
    /\ UNCHANGED <<pluginSide, checkVars>>

\* client.Discover returns an error (transport failure, deadline exceeded)
DiscoverFail ==
    /\ Running
    /\ mainPc = "discovering"
    /\ FinishTest("discovery failed", "none", 0)
    /\ open' = open \ {[op |-> "Discover", test |-> testIdx]}
    /\ UNCHANGED <<mainExitCode, decided, discover, checks, rpcLog>>
    /\ UNCHANGED <<plugVars, stdoutVars, exitVars, sigVars, hostVars>>
    /\ UNCHANGED <<pluginSide, checkVars>>

\* client.Discover returns a response, which is scored
DiscoverReply ==
    /\ Running
    /\ mainPc = "discovering"
    /\ pluginState = "running"
    /\ \E reply \in DiscoverReplies :
         LET sc == ScoreDiscover(tests[testIdx].expectedSchemas, reply, 1, comments)
         IN  /\ discover' = reply
             /\ IF sc.err
                THEN FinishTest("no schema matching", "none", 0)
                ELSE /\ comments' = sc.comments
                     /\ mainPc' = "publish"
                     /\ UNCHANGED <<testIdx, target, count, results, runErr>>
    /\ open' = open \ {[op |-> "Discover", test |-> testIdx]}
    /\ UNCHANGED <<mainExitCode, decided, checks, rpcLog>>
    /\ UNCHANGED <<plugVars, stdoutVars, exitVars, sigVars, hostVars>>
    /\ UNCHANGED <<pluginSide, checkVars>>

\* an execute that ends the process when client.Publish returns an error
PublishCallMutant ==
    /\ Running
    /\ mainPc = "publish"
    /\ rpcLog' = Append(rpcLog, [op |-> "Publish", test |-> testIdx])
    /\ \/ /\ HostExit(1, "callFailed")
          /\ UNCHANGED <<mainPc, target, count, open>>
       \/ /\ mainPc' = "streaming"
          /\ open' = open \cup {[op |-> "Publish", test |-> testIdx]}
          /\ target' = findSchemaIn(tests[testIdx].publishSchema, discover)
          /\ count' = 0
          /\ UNCHANGED hostVars
    /\ UNCHANGED <<testIdx, comments, results, runErr>>
    /\ UNCHANGED <<mainExitCode, decided, discover, checks>>
    /\ UNCHANGED <<plugVars, stdoutVars, exitVars, sigVars>>
    /\ UNCHANGED <<pluginSide, checkVars>>

\* targetSchema := findSchemaIn(t.publishSchema, discover.Schemas);
\* stream, err := client.Publish(ctx, ...)
PublishCall ==
    /\ Running
    /\ mainPc = "publish"
    /\ rpcLog' = Append(rpcLog, [op |-> "Publish", test |-> testIdx])
    /\ \/ /\ FinishTest("publish failed", "none", 0)
          /\ UNCHANGED open
       \/ /\ mainPc' = "streaming"
          /\ open' = open \cup {[op |-> "Publish", test |-> testIdx]}
          /\ target' = findSchemaIn(tests[testIdx].publishSchema, discover)
          /\ count' = 0
          /\ UNCHANGED <<testIdx, comments, results, runErr>>
    /\ UNCHANGED <<mainExitCode, decided, discover, checks>>
    /\ UNCHANGED <<plugVars, stdoutVars, exitVars, sigVars, hostVars>>
    /\ UNCHANGED <<pluginSide, checkVars>>

\* stream.Recv() returns a record: count++; t.recordChecks.evaluate(record)
RecvRecord ==
    /\ Running
    /\ mainPc = "streaming"
    /\ pluginState = "running"
    /\ count < MaxRecords
    /\ \E record \in Records :
         LET ev == EvaluateAll(tests[testIdx].recordChecks, checks, record)
         IN  IF \E i \in 1..Len(ev) : ev[i].panic
             THEN /\ HostExit(2, "panic")
                  /\ UNCHANGED <<count, checks>>
             ELSE /\ count' = count + 1
                  /\ checks' = [i \in 1..Len(ev) |->
                                  [match |-> ev[i].match, parseErr |-> ev[i].parseErr]]
                  /\ UNCHANGED hostVars
    /\ UNCHANGED <<testIdx, discover, target, comments, results, runErr, rpcLog, open>>
    /\ UNCHANGED <<plugVars, stdoutVars, exitVars, sigVars, mainVars>>
    /\ UNCHANGED <<pluginSide, checkVars>>

\* stream.Recv() returns io.EOF: the count and the record checks are scored
RecvEOF ==
    /\ Running
    /\ mainPc = "streaming"
    /\ pluginState = "running"
    /\ IF count # tests[testIdx].expectedCount
       THEN FinishTest("wrong count", "eof", count)
       ELSE LET sr == ScoreRecords(tests[testIdx].recordChecks, checks, 1, comments)
            IN  FinishTest(IF sr.err THEN "record check failed" ELSE "",
                           "eof", count)
    /\ open' = open \ {[op |-> "Publish", test |-> testIdx]}
    /\ UNCHANGED <<mainExitCode, decided, discover, checks, rpcLog>>
    /\ UNCHANGED <<plugVars, stdoutVars, exitVars, sigVars, hostVars>>
    /\ UNCHANGED <<pluginSide, checkVars>>

\* a loop that leaves on any error of Recv as it does on io.EOF
RecvErrorMutant ==
    /\ Running
    /\ mainPc = "streaming"
    /\ IF count # tests[testIdx].expectedCount
       THEN FinishTest("wrong count", "error", count)
       ELSE LET sr == ScoreRecords(tests[testIdx].recordChecks, checks, 1, comments)
            IN  FinishTest(IF sr.err THEN "record check failed" ELSE "",
                           "error", count)
    /\ open' = open \ {[op |-> "Publish", test |-> testIdx]}
    /\ UNCHANGED <<mainExitCode, decided, discover, checks, rpcLog>>
    /\ UNCHANGED <<plugVars, stdoutVars, exitVars, sigVars, hostVars>>
    /\ UNCHANGED <<pluginSide, checkVars>>

\* stream.Recv() returns another error
RecvError ==
    /\ Running
    /\ mainPc = "streaming"
    /\ FinishTest("publish error", "error", count)
    /\ open' = open \ {[op |-> "Publish", test |-> testIdx]}
    /\ UNCHANGED <<mainExitCode, decided, discover, checks, rpcLog>>
    /\ UNCHANGED <<plugVars, stdoutVars, exitVars, sigVars, hostVars>>
    /\ UNCHANGED <<pluginSide, checkVars>>

\* err := runTests(port); if err != nil { os.Exit(1) }; main returns
MainReturn ==
    /\ Running
    /\ mainPc = "return"
    /\ IF runErr # ""
       THEN HostExit(1, "runTestsError")
       ELSE HostExit(0, "mainReturn")
    /\ UNCHANGED <<plugVars, stdoutVars, exitVars, sigVars, mainVars, testVars>>
    /\ UNCHANGED <<pluginSide, checkVars>>

Next ==
    \/ PluginWrite
    \/ PluginExit
    \/ StdoutScanFirst
    \/ StdoutForward
    \/ ExitWait
    \/ ExitClassify
    \/ SigNotify
    \/ SignalArrive
    \/ HandlerKill
    \/ HandlerExit
    \/ MainTimeout
    \/ MainTimeoutFatal
    \/ MainRecvExit
    \/ MainExitBranch
    \/ MainRecvPort
    \/ Dial
    \/ DiscoverCall
    \/ DiscoverFail
    \/ DiscoverReply
    \/ PublishCall
    \/ RecvRecord
    \/ RecvEOF
    \/ RecvError
    \/ MainReturn

Spec == Init /\ [][Next]_vars

\* The timer of the select fires after pluginStartupTimeout, main is then
\* scheduled, and monitorStdout is scheduled whenever a line is there to
\* be scanned.
FairSpec ==
    /\ Spec
    /\ WF_vars(MainTimeout)
    /\ WF_vars(MainTimeoutFatal)
    /\ WF_vars(StdoutForward)

(***************************************************************************)
(* Properties of the supervisor                                            *)
(***************************************************************************)
\* the first line of the plugin's output is a positive decimal integer
FirstLinePositive ==
    /\ pluginOut # <<>>
    /\ Atoi(pluginOut[1]).ok
    /\ Atoi(pluginOut[1]).val > 0

\* C1: the host goes on to connect and run tests only if the first line of
\* the plugin's output is a positive integer; after any other first line
\* (empty, non-numeric, zero, negative) it never connects and issues no RPC.
\* Violated: monitorStdout only checks that strconv.Atoi succeeds, so "0"
\* and "-1" are handed to main, which calls runTests and dials.
C1_HandshakeValidation ==
    /\ Phase = "run" => FirstLinePositive
    /\ ~FirstLinePositive => rpcLog = <<>>

\* C2: when the plugin exits by itself before main has received a port, the
\* host never issues a call, and, whatever the plugin's exit code, the exit
\* watcher and the exit branch of the startup select end the host with a
\* nonzero status (so does every other end of the host but the signal
\* handler's); the exit branch never ends the host with status 0.
C2_EarlyExit ==
    /\ hostExitBy # "exitBranchExit"
    /\ hostExitBy \in {"exitBranchFatal", "monitorExitFatal"} => hostStatus # 0
    /\ (exitedAt = "startup" /\ pluginCode # -1) =>
          /\ rpcLog = <<>>
          /\ (hostState = "exited" /\ hostExitBy \notin {"signal", "signalDefault"})
                => hostStatus # 0

\* a plugin that exited with code 0 before any port line, and the exit
\* watcher's fatal log as the end of the host
C2_Witness ==
    /\ hostState = "exited"
    /\ exitedAt = "startup"
    /\ pluginCode = 0
    /\ pluginOut = <<>>
    /\ hostExitBy = "monitorExitFatal"
    /\ hostStatus = 1

\* what the startup select has decided, and by which branch
StartupDecidedOnce ==
    /\ Len(decided) <= 1
    /\ Phase = "run" <=> decided = <<"port">>
    /\ mainPc = "timeoutBranch" <=> decided = <<"timeout">>
    /\ mainPc = "exitBranch" <=> decided = <<"exit">>
    /\ hostExitBy = "timeout" => decided = <<"timeout">>
    /\ hostExitBy \in {"exitBranchFatal", "exitBranchExit"} => decided = <<"exit">>
    /\ hostExitBy \in {"runTestsError", "mainReturn", "panic"} => decided = <<"port">>

\* C3: the startup select decides once, by the branch taken first (timeout,
\* plugin exit or port); once the port branch is taken the timeout never
\* ends the host; and the host does not wait for ever undecided: a branch is
\* taken or the host ends (the timeout being the branch that is left when
\* neither a port nor an exit is observed), and the timeout branch ends it.
C3_StartupRace ==
    /\ []StartupDecidedOnce
    /\ [](decided = <<>> => <>(decided # <<>> \/ hostState = "exited"))
    /\ []((decided = <<"timeout">>) => <>(hostState = "exited"))

\* the port branch was taken and the run went on to the end of the tests
C3_Witness ==
    /\ decided = <<"port">>
    /\ hostExitBy = "mainReturn"

\* C4: once the handler has received a signal, the host ends with status 0
\* and with the plugin killed, under every interleaving.
\* Violated: between the receive and os.Exit(0) the other goroutines run;
\* the timeout, a fatal log of monitorStdout or monitorExit, the exit branch
\* of the select (which the handler's own Kill makes ready) or the end of
\* runTests can end the host first, with status 1.
C4_SignalShutdown ==
    (sigPc \in {"gotSig", "killed"} /\ hostState = "exited") =>
        (hostStatus = 0 /\ pluginState = "exited")

IsPrefix(a, b) == Len(a) <= Len(b) /\ SubSeq(b, 1, Len(a)) = a

Names(schema) == [i \in 1..Len(schema.properties) |-> schema.properties[i].name]
Types(schema) == [i \in 1..Len(schema.properties) |-> schema.properties[i].type]

\* the positions of in that hold a schema with the signature of want
Matches(want, in) == {j \in 1..Len(in) : Names(in[j]) = Names(want)}

Min(S) == CHOOSE x \in S : \A y \in S : x <= y

\* C6: Publish is issued only after the Discover call of the same test case
\* returned a response in which every expected schema has a schema of the
\* same signature; the schema passed to Publish is the first schema of that
\* response with the signature of the fixture's publish schema.
C6_ClientStateOrder ==
    /\ mainPc \in {"publish", "streaming"} =>
          /\ rpcLog # <<>>
          /\ \E k \in 1..Len(rpcLog) :
                /\ rpcLog[k] = [op |-> "Discover", test |-> testIdx]
                /\ \A l \in (k + 1)..Len(rpcLog) :
                      rpcLog[l] = [op |-> "Publish", test |-> testIdx]
          /\ \A w \in 1..Len(tests[testIdx].expectedSchemas) :
                Matches(tests[testIdx].expectedSchemas[w], discover) # {}
    /\ \A k \in 1..Len(rpcLog) :
          rpcLog[k].op = "Publish" =>
              k > 1 /\ rpcLog[k - 1] = [op |-> "Discover", test |-> rpcLog[k].test]
    /\ mainPc = "streaming" =>
          LET m == Matches(tests[testIdx].publishSchema, discover)
          IN  m # {} /\ target = discover[Min(m)]

\* a Publish whose schema is the discovered one, with other types than the
\* fixture's, and not the first of the response either
C6_Witness ==
    /\ mainPc = "streaming"
    /\ target # tests[testIdx].publishSchema
    /\ Names(target) = Names(tests[testIdx].publishSchema)
    /\ Cardinality(Matches(tests[testIdx].publishSchema, discover)) > 1

\* the result of the test case executed last, while runTests is between
\* two test cases or past the last one
BetweenTests == mainPc \in {"discover", "return"} /\ results # <<>>
LastResult == results[Len(results)]

\* C7: a test case whose Discover call returned fails at the Discover stage
\* iff some expected schema has no discovered schema with the same property
\* names in the same order (and number); a difference in the property types
\* leaves the error unset and shows only in the comment for that schema.
C7_SchemaMatchingSeverity ==
    /\ (BetweenTests /\ LastResult.err # "discovery failed") =>
          (LastResult.err = "no schema matching"
             <=> \E w \in 1..Len(tests[LastResult.test].expectedSchemas) :
                    Matches(tests[LastResult.test].expectedSchemas[w], discover) = {})
    /\ mainPc \in {"publish", "streaming"} =>
          \A w \in 1..Len(tests[testIdx].expectedSchemas) :
             LET want == tests[testIdx].expectedSchemas[w]
                 got  == discover[Min(Matches(want, discover))]
             IN  comments[w] = Comment(IF Types(got) = Types(want)
                                       THEN "inferred types"
                                       ELSE "did not infer types", want.name)

\* a test case past the Discover stage although the types discovered for an
\* expected schema differ from the fixture's
C7_Witness ==
    /\ mainPc = "publish"
    /\ \E w \in 1..Len(comments) : comments[w].msg = "did not infer types"

\* C8: a test case passes only if its Publish stream ended with end-of-stream
\* and the records received number the expected count; a stream that ended
\* with an error fails the test case whatever the number of records.
C8_StreamTermination ==
    \A i \in 1..Len(results) :
       /\ results[i].err = "" =>
             /\ results[i].streamEnd = "eof"
             /\ results[i].count = tests[results[i].test].expectedCount
       /\ results[i].streamEnd = "error" => results[i].err = "publish error"

\* a test case that passed, and one whose stream failed after the expected
\* number of records
C8_Witness ==
    /\ Len(results) = 2
    /\ results[1].err = ""
    /\ results[2].streamEnd = "error"
    /\ results[2].count = tests[2].expectedCount
    /\ results[2].err # ""

\* the errors execute returns when a required check fails
RequiredFailures == {"no schema matching", "wrong count", "record check failed"}

HasCall(op, test) == \E k \in 1..Len(rpcLog) : rpcLog[k] = [op |-> op, test |-> test]

\* C9 as claimed: once a required check of a test case has failed, no
\* Discover or Publish call is issued for any later test case.
\* Violated: runTests counts the failure and goes on with the next test case.
C9_RequiredAbortsRun ==
    \A i \in 1..Len(results) :
       results[i].err \in RequiredFailures =>
          \A k \in 1..Len(rpcLog) : rpcLog[k].test <= results[i].test

\* C9 as amended: a failed required check aborts its test case, not the
\* run: after a missing signature match no Publish call is issued for that
\* test case, and the test case is recorded as failed; runTests still
\* executes every later test case and returns an error at the end.
C9_RequiredAbortsTestCase ==
    /\ \A i \in 1..Len(results) :
          /\ results[i].err = "no schema matching" => ~HasCall("Publish", results[i].test)
          /\ \A j \in 1..Len(tests) : j < results[i].test => HasCall("Discover", j)
    /\ (mainPc = "return" /\ runErr # "connection failed") =>
          /\ Len(results) = Len(tests)
          /\ \A j \in 1..Len(tests) : results[j].test = j /\ HasCall("Discover", j)
          /\ (\E i \in 1..Len(results) : results[i].err \in RequiredFailures)
                => runErr = "failed"

\* the first test case failed a required check and the second one was
\* executed all the same, and passed
C9_Witness ==
    /\ mainPc = "return"
    /\ Len(results) = Len(tests)
    /\ results[1].err = "no schema matching"
    /\ HasCall("Publish", 2)
    /\ results[2].err = ""
    /\ runErr = "failed"

\* a check built by invalidRecordCheck or parsingRecordCheck
Advisory(r) == r.shouldBeInvalid \/ r.isParseCheck

\* C10: when the stream ended normally with the expected count, the test
\* case fails iff some required record check matched no record; an advisory
\* check (invalid-record or parsing check) that matched nothing, matched a
\* record not marked invalid, or holds a parse error does not change that.
C10_AdvisoryTolerated ==
    (/\ BetweenTests
     /\ LastResult.streamEnd = "eof"
     /\ LastResult.count = tests[LastResult.test].expectedCount) =>
        LET rcs == tests[LastResult.test].recordChecks
        IN  /\ LastResult.err \in {"", "record check failed"}
            /\ LastResult.err = "record check failed"
                  <=> \E i \in 1..Len(rcs) :
                         ~Advisory(rcs[i]) /\ checks[i].match = NoRecord

\* a test case that passed although its invalid-record check matched a
\* record not marked invalid and its parsing check holds a parse error
C10_Witness ==
    /\ BetweenTests
    /\ LastResult.test = 1
    /\ LastResult.err = ""
    /\ checks[2].match # NoRecord
    /\ ~checks[2].match.invalid
    /\ checks[3].match # NoRecord
    /\ checks[3].parseErr

\* a test case that passed although its advisory checks matched no record
C10_WitnessMissing ==
    /\ BetweenTests
    /\ LastResult.test = 1
    /\ LastResult.err = ""
    /\ checks[2].match = NoRecord

\* the statements of the test runner that end the host
RunnerExits == {"runTestsError", "mainReturn"}

\* C11: a failed Discover or Publish call is recorded as the error of its
\* test case and never ends the host: every call issued for an earlier test
\* case has its result, results are kept one per test case in order, the
\* test runner ends the host only after the results of all test cases (or
\* after a failed connection), and no other statement of the runner does.
C11_CallFailureIsNoCrash ==
    /\ \A i \in 1..Len(results) : results[i].test = i
    /\ mainPc \in {"discover", "discovering", "publish", "streaming"}
          => Len(results) = testIdx - 1
    /\ \A k \in 1..Len(rpcLog) :
          rpcLog[k].test < testIdx => rpcLog[k].test <= Len(results)
    /\ (mainPc = "return" /\ runErr # "connection failed")
          => Len(results) = Len(tests)
    /\ hostState = "exited" =>
          /\ hostExitBy \in RunnerExits \cup
                {"badPort", "monitorExitFatal", "signalDefault", "signal",
                 "timeout", "exitBranchFatal", "exitBranchExit", "panic"}
          /\ hostExitBy \in RunnerExits => mainPc = "return"

\* a run whose first test case failed in Publish and whose second failed
\* in Discover, with the host still running when runTests returns
C11_Witness ==
    /\ hostState = "running"
    /\ mainPc = "return"
    /\ Len(results) = Len(tests)
    /\ results[1].err = "publish failed"
    /\ results[2].err = "discovery failed"
    /\ runErr = "failed"

\* C12: the client has at most one call open at any moment, the open call
\* belongs to the test case being executed, and no call is open when a test
\* case has ended and the next Discover is about to be issued.
C12_SequentialClient ==
    /\ Cardinality(open) <= 1
    /\ \A c \in open : c.test = testIdx
    /\ mainPc \in {"discover", "return"} => open = {}
    /\ mainPc = "discovering" => open = {[op |-> "Discover", test |-> testIdx]}
    /\ mainPc = "streaming" => open = {[op |-> "Publish", test |-> testIdx]}

\* the second test case's Discover is open after the first test case's
\* Publish stream has ended
C12_Witness ==
    /\ open = {[op |-> "Discover", test |-> 2]}
    /\ Len(results) = 1
    /\ results[1].streamEnd \in {"eof", "error"}
    /\ HasCall("Publish", 1)

(***************************************************************************)
(* Properties of the plugin                                                *)
(***************************************************************************)
\* C13: the plugin writes the port line exactly once, and before any other
\* line of its standard output: no log line is ever the first line, and
\* once main() has returned (so before any handler runs) the port line has
\* been written once and is the first line.
C13_HandshakeEmission ==
    /\ nodeFirst # "log"
    /\ nodePortLines <= 1
    /\ nodePc = "serving" => nodePortLines = 1 /\ nodeFirst = "port"
    /\ (\E c \in 1..MaxCalls : calls[c].state # "idle") => nodeFirst = "port"

\* a Discover handler has run to its reply, writing its log lines
C13_Witness ==
    /\ nodeFirst = "port"
    /\ nodePortLines = 1
    /\ \E c \in 1..MaxCalls : calls[c].state = "replied" /\ calls[c].reply # <<>>

\* C14: getType returns exactly one of the five types, by strict priority:
\* integer for a value that parses as a number and has no point, number for
\* one that parses as a number and has a point, else boolean for a token of
\* the boolean set (whatever its case), else datetime for a value that
\* parses as a date, else string.
C14_ClassificationPriority ==
    typeOf # "" =>
       LET isNumber == NumberParses(text)
           isBool == toLowerCase(text) \in BooleanTokens(variant)
           isDate == DateParses(text, engine)
       IN  /\ typeOf \in {"integer", "number", "boolean", "datetime", "string"}
           /\ (isNumber /\ HasNoPoint(text)) => typeOf = "integer"
           /\ (isNumber /\ ~HasNoPoint(text)) => typeOf = "number"
           /\ (~isNumber /\ isBool) => typeOf = "boolean"
           /\ (~isNumber /\ ~isBool /\ isDate) => typeOf = "datetime"
           /\ (~isNumber /\ ~isBool /\ ~isDate) => typeOf = "string"

\* a value that is a number and also parses as a date is an integer
C14_Witness ==
    /\ text = tInt
    /\ DateParses(text, engine)
    /\ typeOf = "integer"

\* how many values of col getType classifies as t
CountOf(col, t) == Cardinality({i \in 1..Len(col) : getType(col[i]) = t})

C15_WitnessTie ==
    /\ variant = "majority"
    /\ column = <<tWord, tInt>>
    /\ columnType = "integer"

\* the schema object entry k of knownSchemas refers to
Entry(k) == Deref(calls, knownSchemas[k])

\* every schema getSchema has resolved carries the name and the properties
\* of the entry of knownSchemas with its file's header
ReportedAsKnown ==
    \A c \in 1..MaxCalls : \A i \in 1..Len(calls[c].values) :
       calls[c].values[i].st = "resolved" =>
          \E k \in 1..Len(knownSchemas) :
             /\ getPropertyNames(Entry(k).properties) = Files[calls[c].files[i]].header
             /\ calls[c].values[i].name = Entry(k).name
             /\ calls[c].values[i].properties = Entry(k).properties

\* no step removes or moves an entry or changes its name or properties
EntriesKept ==
    /\ Len(knownSchemas') >= Len(knownSchemas)
    /\ \A k \in 1..Len(knownSchemas) :
          /\ knownSchemas'[k] = knownSchemas[k]
          /\ Deref(calls', knownSchemas[k]).name = Entry(k).name
          /\ Deref(calls', knownSchemas[k]).properties = Entry(k).properties

\* C16: an entry of the registry, once inserted, stays, with the same name
\* and the same property names and types; a file with an entry's header is
\* reported with the entry's name and types, whatever types its own values
\* have.
C16_RegistryCanonical == []ReportedAsKnown /\ [][EntriesKept]_vars

\* a file whose values gave other types than those of the entry with its
\* header has been reported, with the entry's types
C16_Witness ==
    \E c \in 1..MaxCalls : \E i \in 1..Len(calls[c].values) :
       /\ calls[c].state = "replied"
       /\ calls[c].values[i].st = "resolved"
       /\ calls[c].values[i].inferred # calls[c].values[i].properties
       /\ \E j \in 1..Len(calls[c].reply) :
             calls[c].reply[j].properties = calls[c].values[i].properties

\* C17: under every interleaving of the parse completions of one or
\* several concurrent Discover calls, no two entries of the registry have
\* the same ordered list of property names.
C17_SignatureUnique ==
    \A k1, k2 \in 1..Len(knownSchemas) :
       k1 # k2 =>
          getPropertyNames(Entry(k1).properties) # getPropertyNames(Entry(k2).properties)

\* two calls are parsing at the same time and each has resolved a file
\* with the same header
C17_Witness ==
    /\ calls[1].state = "parsing"
    /\ calls[2].state = "parsing"
    /\ \E i \in 1..Len(calls[1].values) : \E j \in 1..Len(calls[2].values) :
          /\ calls[1].values[i].st = "resolved"
          /\ calls[2].values[j].st = "resolved"
          /\ Files[calls[1].files[i]].header = Files[calls[2].files[j]].header
          /\ calls[1].files[i] # calls[2].files[j]
    /\ \E i \in 1..Len(calls[1].values) : calls[1].values[i].st = "pending"
    /\ \E j \in 1..Len(calls[2].values) : calls[2].values[j].st = "pending"

\* the header of the i-th file call c matched
HeaderOf(c, i) == Files[calls[c].files[i]].header

\* how many times path occurs in settings
Occurrences(settings, path) ==
    Cardinality({n \in 1..Len(settings) : settings[n] = path})

\* C18: the reply of a Discover call whose files all parsed has no two
\* schemas with the same property-name list, has a schema for the header
\* of every matched file and none for any other header, and each schema's
\* settings hold every matched file with its header exactly once and
\* nothing else.
C18_DiscoverResultShape ==
    \A c \in 1..MaxCalls :
       calls[c].state = "replied" =>
          LET reply == calls[c].reply
              files == calls[c].files
          IN  /\ \A j1, j2 \in 1..Len(reply) :
                    j1 # j2 => getPropertyNames(reply[j1].properties)
                                  # getPropertyNames(reply[j2].properties)
              /\ \A i \in 1..Len(files) :
                    \E j \in 1..Len(reply) :
                       getPropertyNames(reply[j].properties) = HeaderOf(c, i)
              /\ \A j \in 1..Len(reply) :
                    /\ \E i \in 1..Len(files) :
                          getPropertyNames(reply[j].properties) = HeaderOf(c, i)
                    /\ \A i \in 1..Len(files) :
                          Occurrences(reply[j].settings, files[i]) =
                             IF getPropertyNames(reply[j].properties) = HeaderOf(c, i)
                             THEN 1 ELSE 0
                    /\ \A n \in 1..Len(reply[j].settings) :
                          \E i \in 1..Len(files) : reply[j].settings[n] = files[i]

\* a reply with three schemas for four files, two of them with one header
C18_Witness ==
    \E c \in 1..MaxCalls :
       /\ calls[c].state = "replied"
       /\ Len(calls[c].files) = 4
       /\ Len(calls[c].reply) = 3
       /\ \E j \in 1..3 : calls[c].reply[j].settings = <<"people.1.csv", "people.2.csv">>

\* call c matched a file, or a header, that the earlier call b matched too
Overlap(b, c) ==
    \E i \in 1..Len(calls[b].files) : \E j \in 1..Len(calls[c].files) :
       HeaderOf(b, i) = HeaderOf(c, j)

\* the files of call c with the header of its i-th file, in order
RECURSIVE SameHeader(_, _, _)
SameHeader(c, i, n) ==
    IF n > Len(calls[c].files) THEN <<>>
    ELSE IF HeaderOf(c, n) = HeaderOf(c, i)
         THEN <<calls[c].files[n]>> \o SameHeader(c, i, n + 1)
         ELSE SameHeader(c, i, n + 1)

\* C19: the reply to a call that arrived after the reply to an earlier,
\* overlapping call has, for the header of each file it matched, exactly
\* one schema, whose settings are the files of that header matched by the
\* later call, each once, and no file left by the earlier call.
C19_DedupAcrossCalls ==
    \A c \in 1..MaxCalls :
       (calls[c].state = "replied" /\ \E b \in calls[c].after : Overlap(b, c)) =>
          \A i \in 1..Len(calls[c].files) :
             /\ Cardinality({j \in 1..Len(calls[c].reply) :
                   getPropertyNames(calls[c].reply[j].properties) = HeaderOf(c, i)}) = 1
             /\ \A j \in 1..Len(calls[c].reply) :
                   getPropertyNames(calls[c].reply[j].properties) = HeaderOf(c, i)
                      => calls[c].reply[j].settings = SameHeader(c, i, 1)

\* the same pattern, with two files of one header, discovered twice, the
\* second time after the first reply
C19_Witness ==
    /\ calls[1].state = "replied"
    /\ calls[2].state = "replied"
    /\ calls[2].after = {1}
    /\ calls[1].pattern = "people.*.csv"
    /\ calls[2].pattern = "people.*.csv"
    /\ Len(calls[2].reply) = 1
    /\ calls[2].reply[1].settings = <<"people.1.csv", "people.2.csv">>

\* call c has arrived with a pattern that matches no file
EmptyMatch(c) == calls[c].state # "idle" /\ glob(calls[c].pattern) = <<>>

\* a step of a call with an empty match leaves knownSchemas as it is
EmptyMatchKeepsRegistry ==
    \A c \in 1..MaxCalls :
       (EmptyMatch(c) /\ calls'[c] # calls[c]) => knownSchemas' = knownSchemas

\* C20: a Discover call whose pattern matches no file is replied to, with
\* an empty list of schemas, and none of its steps changes the registry.
C20_EmptyMatch ==
    /\ [](\A c \in 1..MaxCalls :
            (EmptyMatch(c) /\ calls[c].state = "replied") => calls[c].reply = <<>>)
    /\ [][EmptyMatchKeepsRegistry]_vars
    /\ \A c \in 1..MaxCalls : EmptyMatch(c) ~> calls[c].state = "replied"

\* an empty match replied to after a call that filled the registry
C20_Witness ==
    /\ calls[1].state = "replied"
    /\ knownSchemas = << <<1, 1>> >>
    /\ calls[2].state = "replied"
    /\ calls[2].after = {1}
    /\ calls[2].pattern = "none.csv"
    /\ calls[2].reply = <<>>

\* the i-th file call c matched
FileOf(c, i) == Files[calls[c].files[i]]

\* C21: once the parse of a matched file with a header and no data row
\* has ended, getSchema has resolved to a schema whose properties are the
\* header's columns, in order, each of type string (and so Discover can
\* reply with it).
\* Violated: Object.keys(data[0]) throws and the promise is never resolved.
C21_HeaderOnlyFile ==
    \A c \in 1..MaxCalls : \A i \in 1..Len(calls[c].values) :
       (/\ FileOf(c, i).readable
        /\ FileOf(c, i).rows = <<>>
        /\ calls[c].values[i].st # "pending") =>
          /\ calls[c].values[i].st = "resolved"
          /\ calls[c].values[i].properties =
                [j \in 1..Len(FileOf(c, i).header) |->
                    Prop(FileOf(c, i).header[j], "string")]

\* no parse of call c is pending, one of its promises will never be
\* resolved, and so the callback of Promise.all never runs: the handler
\* has no step left, and it has called callback neither with a reply nor
\* with an error
NoReplyEver(c) ==
    /\ calls[c].state = "parsing"
    /\ \A i \in 1..Len(calls[c].values) : calls[c].values[i].st # "pending"
    /\ \E i \in 1..Len(calls[c].values) : calls[c].values[i].st = "stuck"

\* C22: a Discover call that matched a file that cannot be read is never
\* left without a reply or an error.
\* Violated: nothing catches the rejection of the parse, so the call's
\* callback is never called.
C22_UnparsableFile ==
    \A c \in 1..MaxCalls :
       (\E i \in 1..Len(calls[c].files) : ~FileOf(c, i).readable) => ~NoReplyEver(c)

\* the records written to the stream of call p so far
RecordsOf(p) == {k \in 1..Len(pubs[p].stream) : ~pubs[p].stream[k].end}

\* the row of the file a record was made from
RowOf(rec) == Files[rec.file].rows[rec.row]

\* the cells of a row whose own type is not the declared one
Mismatching(row, properties) ==
    {j \in 1..Len(row) : getType(row[j]) # properties[j].type}

\* the smallest of them, counted from 0
FirstMismatch(row, properties) ==
    (CHOOSE m \in Mismatching(row, properties) :
        \A n \in Mismatching(row, properties) : m <= n) - 1

\* cell j of the row, converted as its declared type says and serialized
ConvertedCell(row, properties, j) ==
    JSONstringify(<<convertToType(row[j], properties[j].type)>>)[1]

\* the record marks the row invalid, has null at index i and every other
\* cell converted as declared
InvalidAt(rec, row, properties, i) ==
    /\ rec.invalid
    /\ Len(rec.data) = Len(row)
    /\ rec.data[i + 1] = JsNull
    /\ \A j \in 1..Len(row) :
          j # i + 1 => rec.data[j] = ConvertedCell(row, properties, j)

\* the error text names the index, the declared type and the cell's type
ErrorNames(rec, row, properties, i) ==
    /\ \E k \in 1..Len(rec.error) : rec.error[k] = ToString(i)
    /\ \E k \in 1..Len(rec.error) : rec.error[k] = properties[i + 1].type
    /\ \E k \in 1..Len(rec.error) : rec.error[k] = getType(row[i + 1])

\* a record of call p made from a row that has as many cells as the
\* schema has properties and a cell of another type than declared
FromMismatchingRow(p, k) ==
    /\ k \in RecordsOf(p)
    /\ Len(RowOf(pubs[p].stream[k])) = Len(pubs[p].request.properties)
    /\ Mismatching(RowOf(pubs[p].stream[k]), pubs[p].request.properties) # {}

\* C23: the record of a row with as many cells as properties whose
\* smallest mismatching index is i has invalid = true, null at index i,
\* every other cell converted as declared, and an error text that names
\* i, the declared type and the cell's type.
\* Violated: the error text holds the two types and not the index.
C23_InvalidRowRecord ==
    \A p \in 1..MaxPublish : \A k \in 1..Len(pubs[p].stream) :
       FromMismatchingRow(p, k) =>
          LET rec == pubs[p].stream[k]
              properties == pubs[p].request.properties
              i == FirstMismatch(RowOf(rec), properties)
          IN  /\ InvalidAt(rec, RowOf(rec), properties, i)
              /\ ErrorNames(rec, RowOf(rec), properties, i)

\* what does hold of such a record: all of the above but the index in the
\* error text
InvalidRowRecordLessIndex ==
    \A p \in 1..MaxPublish : \A k \in 1..Len(pubs[p].stream) :
       FromMismatchingRow(p, k) =>
          LET rec == pubs[p].stream[k]
              properties == pubs[p].request.properties
              i == FirstMismatch(RowOf(rec), properties)
          IN  /\ InvalidAt(rec, RowOf(rec), properties, i)
              /\ rec.error = <<"Expected type: ", properties[i + 1].type,
                               " but got type: ", getType(RowOf(rec)[i + 1])>>

\* a record of call p made from a row that has as many cells as the
\* schema has properties
FromFullRow(p, k) ==
    /\ k \in RecordsOf(p)
    /\ Len(RowOf(pubs[p].stream[k])) = Len(pubs[p].request.properties)

Parsed(p, i) ==
    /\ i \in 1..Len(pubs[p].promises)
    /\ pubs[p].promises[i] # "pending"
    /\ Files[pubs[p].request.settings[i]].readable

\* row k of file i of call p has more or fewer cells than the schema has
\* properties
OddRow(p, i, k) ==
    Len(Files[pubs[p].request.settings[i]].rows[k]) # Len(pubs[p].request.properties)

\* the stream of call p holds a record made from row k of file i
HasRecord(p, i, k) ==
    \E m \in RecordsOf(p) :
       /\ pubs[p].stream[m].file = pubs[p].request.settings[i]
       /\ pubs[p].stream[m].row = k

\* of a parsed file, a row of another length has no record, every other
\* row has one, and the promise of the file is resolved
RowShapeDrop(p, i) ==
    /\ \A k \in 1..Len(Files[pubs[p].request.settings[i]].rows) :
          HasRecord(p, i, k) <=> ~OddRow(p, i, k)
    /\ pubs[p].promises[i] = "resolved"

\* C25: a row whose cell count differs from the number of properties
\* produces no record, and does not stop the stream: the rows after it are
\* published and the parse of the file completes.
\* Violated by the publishFile of src/plugin/node/utils.js, which has no
\* test of the row's length.
C25_RowShapeDrop ==
    \A p \in 1..MaxPublish : \A i \in 1..2 : Parsed(p, i) => RowShapeDrop(p, i)

\* the same holds of the publishFile of part_001
RowShapeDropInPart001 ==
    variant = "majority" => C25_RowShapeDrop

\* the rows of the files of call p that have as many cells as the schema
\* has properties, as <<file, row>>
FullRows(p) ==
    UNION {{<<i, k>> : k \in {n \in 1..Len(Files[pubs[p].request.settings[i]].rows) :
                                  /\ Files[pubs[p].request.settings[i]].readable
                                  /\ ~OddRow(p, i, n)}} :
           i \in 1..Len(pubs[p].request.settings)}

\* the records of the stream that were made from row fr
RecordsFrom(p, fr) ==
    {m \in RecordsOf(p) :
        /\ pubs[p].stream[m].file = pubs[p].request.settings[fr[1]]
        /\ pubs[p].stream[m].row = fr[2]}

\* C26: with the publishFile of part_001, every record of a stream comes
\* from a data row whose cell count is the number of properties, no such
\* row has more than one record, and a stream that was ended has one for
\* each: R such rows give exactly R records.
C26_CountConservation ==
    variant = "majority" =>
       \A p \in 1..MaxPublish :
          /\ \A m \in RecordsOf(p) :
                \E fr \in FullRows(p) : m \in RecordsFrom(p, fr)
          /\ \A fr \in FullRows(p) : Cardinality(RecordsFrom(p, fr)) <= 1
          /\ pubs[p].state = "ended" =>
                /\ \A fr \in FullRows(p) : Cardinality(RecordsFrom(p, fr)) = 1
                /\ Cardinality(RecordsOf(p)) = Cardinality(FullRows(p))

\* a stream over a file with rows of other lengths was ended: two rows
\* of ragged.csv out of five, and the three of animals.csv
C26_Witness ==
    /\ variant = "majority"
    /\ \E p \in 1..MaxPublish :
          /\ pubs[p].state = "ended"
          /\ pubs[p].request.settings = <<"ragged.csv", "animals.csv">>
          /\ Cardinality(RecordsOf(p)) = 5

\* where file f stands in the settings of call p
PlaceOf(p, f) == CHOOSE i \in 1..Len(pubs[p].request.settings) :
                     pubs[p].request.settings[i] = f

\* record m is written before record n, so m's file stands before n's
\* in the settings, or it is the same file and m's row comes first
InFileThenRowOrder(p, m, n) ==
    \/ PlaceOf(p, pubs[p].stream[m].file) < PlaceOf(p, pubs[p].stream[n].file)
    \/ /\ pubs[p].stream[m].file = pubs[p].stream[n].file
       /\ pubs[p].stream[m].row < pubs[p].stream[n].row

\* C27: the records of a stream are in the order of the files in the
\* settings and, within a file, in the order of the rows, whichever parse
\* completes first.
\* Violated: each file's records are written when its own parse completes.
C27_EmissionOrder ==
    \A p \in 1..MaxPublish : \A m, n \in RecordsOf(p) :
       m < n => InFileThenRowOrder(p, m, n)

\* within a file the records are in the order of the rows
RowOrderWithinFile ==
    \A p \in 1..MaxPublish : \A m, n \in RecordsOf(p) :
       (m < n /\ pubs[p].stream[m].file = pubs[p].stream[n].file) =>
          pubs[p].stream[m].row < pubs[p].stream[n].row

\* where call.end() stands in the stream of call p
EndsOf(p) == {k \in 1..Len(pubs[p].stream) : pubs[p].stream[k].end}

\* every file of call p can be read
AllReadable(p) ==
    \A i \in 1..Len(pubs[p].request.settings) :
       Files[pubs[p].request.settings[i]].readable

\* the stream is ended at most once, nothing is written after the end,
\* and at the end every row to publish of every file has its record
EndedOnceAndLast(p) ==
    /\ Cardinality(EndsOf(p)) <= 1
    /\ \A k \in EndsOf(p) :
          /\ k = Len(pubs[p].stream)
          /\ \A i \in 1..Len(pubs[p].promises) : pubs[p].promises[i] = "resolved"
          /\ \A fr \in FullRows(p) : RecordsFrom(p, fr) # {}

\* the steps call p still has to take: its parses, and the end
Remaining(p) ==
    Cardinality({i \in 1..Len(pubs[p].promises) : pubs[p].promises[i] = "pending"})
       + (IF pubs[p].state = "open" THEN 1 ELSE 0)

\* an open call over readable files always has a callback to run: a
\* parse that has not ended, or the one of Promise.all
CanProceed(p) ==
    (pubs[p].state = "open" /\ AllReadable(p) /\ variant = "majority") =>
       \/ \E i \in 1..Len(pubs[p].promises) : pubs[p].promises[i] = "pending"
       \/ \A i \in 1..Len(pubs[p].promises) : pubs[p].promises[i] = "resolved"

\* every step of an open call takes it nearer to its end
Proceeds(p) ==
    (pubs[p].state = "open" /\ pubs'[p] # pubs[p]) => Remaining(p)' < Remaining(p)

\* C28: the stream of a Publish call is ended at most once, only after
\* the last row of every file has been written, and nothing is written
\* after the end; when every file can be read, the call of part_001 is
\* never left without a callback to run before its stream is ended, and
\* every callback brings the end nearer, so the stream is ended as long as
\* the process runs.
C28_NormalStreamEnd ==
    /\ [](\A p \in 1..MaxPublish : EndedOnceAndLast(p) /\ CanProceed(p))
    /\ [][\A p \in 1..MaxPublish : Proceeds(p)]_vars

\* the stream over two readable files was ended after their four records
C28_Witness ==
    \E p \in 1..MaxPublish :
       /\ pubs[p].request.settings = <<"people.1.csv", "people.2.csv">>
       /\ Len(pubs[p].stream) = 5
       /\ EndsOf(p) = {5}

\* no parse of call p is pending and one of its promises will never be
\* resolved, so the callback of Promise.all never runs: the handler has
\* no step left, and its stream has been neither ended nor failed
StreamLeftOpen(p) ==
    /\ pubs[p].state = "open"
    /\ EndsOf(p) = {}
    /\ \A i \in 1..Len(pubs[p].promises) : pubs[p].promises[i] # "pending"
    /\ \E i \in 1..Len(pubs[p].promises) : pubs[p].promises[i] = "stuck"

\* C29: a Publish call one of whose files cannot be read is never left
\* with its stream open and nothing more to come.
\* Violated: nothing catches the rejection of the parse, so call.end() is
\* never reached and no error is sent.
C29_AbortClosesStream ==
    \A p \in 1..MaxPublish :
       (nodePc = "serving" /\ ~AllReadable(p)) => ~StreamLeftOpen(p)

\* The plugin with SIGINT arriving while it is idle, while Discover calls
\* are in progress or while Publish calls are streaming (runs with calls
\* of one kind)
CancelNext ==
    \/ NodeNext /\ \A p \in 1..MaxPublish : pubs[p].state = "idle"
    \/ PubNext /\ \A c \in 1..MaxCalls : calls[c].state = "idle"
    \/ Sigint

CancelSpec == NodeInit /\ [][CancelNext]_vars

\* the handler has run: the process is gone, with status 0
Cancelled == nodePc = "exited" /\ nodeExit = 0

\* C30: while the plugin serves, whatever its calls are doing, SIGINT has
\* its handler; the handler ends the process with exit status 0, and from
\* then on no record is written to any stream and no call is answered.
C30_PluginCancellation ==
    /\ [](nodePc = "serving" => ENABLED Sigint)
    /\ [](nodeExit # -1 => Cancelled)
    /\ [][Cancelled => (Cancelled' /\ pubs' = pubs /\ calls' = calls)]_vars

\* SIGINT came while a Publish call was streaming: records of one file
\* are written, the parse of the other has not ended
C30_Witness ==
    /\ Cancelled
    /\ \E p \in 1..MaxPublish :
          /\ pubs[p].state = "open"
          /\ RecordsOf(p) # {}
          /\ \E i \in 1..Len(pubs[p].promises) : pubs[p].promises[i] = "pending"

\* SIGINT came while a Discover call was waiting for its parses
CancelledInDiscover ==
    /\ Cancelled
    /\ \E c \in 1..MaxCalls : calls[c].state = "parsing"

\* file i of call c has the header of entry k of the registry
Contributes(c, i, k) ==
    /\ i \in 1..Len(calls[c].files)
    /\ getPropertyNames(Entry(k).properties) = HeaderOf(c, i)

\* C31: after the reply to a Discover call, the settings of every entry
\* of the registry hold every file of the call that has the entry's
\* header.
\* Violated: checkKnownSchemas leaves the entry's settings alone, and the
\* merge in Discover pushes onto the first schema object of the reply with
\* these properties, which is the entry's object only when the file that
\* made the entry comes first among them in this very call.
C31_RegistrySettingsAccumulate ==
    \A c \in 1..MaxCalls : \A k \in 1..Len(knownSchemas) :
       calls[c].state = "replied" =>
          \A i \in 1..Len(calls[c].files) :
             Contributes(c, i, k) =>
                Occurrences(Entry(k).settings, calls[c].files[i]) >= 1

\* every entry of the registry was made by call c: the registry was
\* empty when c arrived and no other call has added to it
OnlyCall(c) == \A k \in 1..Len(knownSchemas) : knownSchemas[k][1] = c

\* the file of call c that stands first in the settings of schema j of
\* its reply
FirstFileOf(c, j) ==
    CHOOSE i \in 1..Len(calls[c].files) :
       calls[c].files[i] = calls[c].reply[j].settings[1]

\* C32: in the reply to a Discover call that found the registry empty,
\* each schema has the name of, and the property types inferred from,
\* the file at settings[0], in whatever order the parses completed.
\* Violated: the types are those of the file whose parse completed first.
C32_CanonicalSourceFirstFile ==
    \A c \in 1..MaxCalls :
       (calls[c].state = "replied" /\ OnlyCall(c)) =>
          \A j \in 1..Len(calls[c].reply) :
             /\ calls[c].reply[j].name = Files[calls[c].files[FirstFileOf(c, j)]].base
             /\ calls[c].reply[j].properties =
                   calls[c].values[FirstFileOf(c, j)].inferred

\* C33: in the stream of a Publish call the records of one file stand
\* together, with no record of another file between them, and in the
\* order of the file's rows, in whatever order the parses complete.
C33_PerFileContiguity ==
    \A p \in 1..MaxPublish : \A m, n \in RecordsOf(p) :
       (m < n /\ pubs[p].stream[m].file = pubs[p].stream[n].file) =>
          /\ pubs[p].stream[m].row < pubs[p].stream[n].row
          /\ \A q \in m..n : pubs[p].stream[q].file = pubs[p].stream[m].file

\* a stream with the two records of the second file of the settings
\* followed by the two of the first
C33_Witness ==
    \E p \in 1..MaxPublish :
       /\ Len(pubs[p].stream) >= 4
       /\ pubs[p].stream[1].file = "people.2.csv"
       /\ pubs[p].stream[2].file = "people.2.csv"
       /\ pubs[p].stream[3].file = "people.1.csv"
       /\ pubs[p].stream[4].file = "people.1.csv"

\* main has received the port and runTests has connected
Connected ==
    /\ mainPc \in {"discover", "discovering", "publish", "streaming", "return"}
    /\ runErr # "connection failed"

\* every test case has finished, none with an error
AllPassed == Len(results) = Len(tests) /\ FailCount(results) = 0

\* the status says what the test cases did
StatusReflectsTests ==
    /\ hostStatus = 0 <=> AllPassed
    /\ hostStatus # 0 <=> FailCount(results) >= 1

\* C34: when the host has exited after it received the port and
\* connected, and no signal was delivered, its status is 0 exactly when
\* every test case finished without an error and nonzero exactly when at
\* least one test case recorded an error.
\* Violated: monitorExit ends the host with status 1 when the plugin exits
\* with status 0, and a panic in a record check ends it with status 2,
\* whatever the test cases recorded.
C34_ExitStatusReflectsTests ==
    (hostState = "exited" /\ Connected /\ signals = 0) => StatusReflectsTests

\* it does hold when the host ends by main, after runTests has returned
ExitStatusOfMain ==
    (hostState = "exited" /\ Connected /\ hostExitBy \in {"mainReturn", "runTestsError"})
       => /\ StatusReflectsTests
          /\ Len(results) = Len(tests)

\* the statements of the exit watcher's path that end the host: the
\* log.Fatalf of monitorExit, and main's branch for exitCh
ByExitWatcher == hostExitBy \in {"monitorExitFatal", "exitBranchFatal", "exitBranchExit"}

\* C35: when the plugin exited after main had received the port, with
\* whatever status, the host is not ended by the exit watcher.
\* Violated: cmd.Wait returns nil for status 0, nil is no *exec.ExitError,
\* and monitorExit calls log.Fatalf.
C35_ExitAfterHandshake ==
    (hostState = "exited" /\ exitedAt = "run") => ~ByExitWatcher

\* a plugin that exits with a nonzero status after the port was received
\* does not end the host: monitorExit blocks in its send on exitCh
NonzeroExitAfterHandshake ==
    (hostState = "exited" /\ exitedAt = "run" /\ pluginCode # 0) => ~ByExitWatcher

\* C36: whenever the host has ended, by whatever statement, the plugin
\* process has ended before.
\* Violated: only handleUserExit kills the plugin; main's return, its
\* os.Exit(1) and every log.Fatalf leave it running.
C36_PluginReleased ==
    hostState = "exited" => pluginState = "exited"

\* the one path that does end the plugin first: handleUserExit
ReleasedBySignalHandler ==
    (hostState = "exited" /\ hostExitBy = "signal") => pluginState = "exited"

(***************************************************************************)
(* recordCheck.evaluate on its own: a check is drawn, and records are      *)
(* given to it one after the other as expectedRecords.evaluate does.       *)
(***************************************************************************)
\* the records given to one check
MaxSeen == 2

\* checks as runTests builds them: a required one, and parsing checks
\* that expect a number, a string, a boolean, null and a time
Checks ==
    { requiredRecordCheck(1, Str("v")),
      parsingRecordCheck(1, Str("v"), 0, Num(52)),
      parsingRecordCheck(1, Str("v"), 0, Str("x")),
      parsingRecordCheck(1, Str("v"), 0, Bool(TRUE)),
      parsingRecordCheck(1, Str("v"), 0, Null),
      parsingRecordCheck(1, Str("v"), 0, Time(0)),
      parsingRecordCheck(0, Str("v"), 1, Str("x")) }

\* a record whose Data is JSON text of n bytes that is no array:
\* json.Unmarshal leaves data nil
NotAnArray(n) == [invalid |-> FALSE, data |-> <<>>, dataLen |-> n]

CheckRecords ==
    { Record(FALSE, <<Num(52), Str("v")>>),
      Record(FALSE, <<Num(5), Str("v")>>),
      Record(FALSE, <<Str("x"), Str("v")>>),
      Record(FALSE, <<Str("v"), Str("v")>>),
      Record(FALSE, <<Str("v"), Str("x")>>),
      Record(FALSE, <<Bool(TRUE), Str("v")>>),
      Record(FALSE, <<Null, Str("v")>>),
      Record(FALSE, <<Str("1970-01-01T00:00:00Z"), Str("v")>>),
      Record(FALSE, <<Str("1970-01-01T01:00:00+01:00"), Str("v")>>),
      Record(FALSE, <<Num(52), Str("m")>>),
      Record(FALSE, <<Str("v")>>),
      Record(FALSE, <<>>),
      NotAnArray(9) }

\* expected.evaluate(record, data) of expectedRecords.evaluate
EvaluateRecord ==
    /\ ~checkPanic
    /\ Len(seen) < MaxSeen
    /\ \E record \in CheckRecords :
          LET ev == evaluate(check, checkSt, record)
          IN  /\ checkSt' = IF ev.panic THEN checkSt
                            ELSE [match |-> ev.match, parseErr |-> ev.parseErr]
              /\ checkPanic' = ev.panic
              /\ seen' = Append(seen, record)
    /\ UNCHANGED <<check, runVars, pluginSide>>

CheckInit ==
    /\ HostInit
    /\ InferIdle
    /\ NodeIdle
    /\ PubIdle
    /\ check \in Checks
    /\ checkSt = NewCheck
    /\ checkPanic = FALSE
    /\ seen = <<>>

CheckNext == EvaluateRecord

CheckSpec == CheckInit /\ [][CheckNext]_vars

\* the first record of seen with matchValue at matchIndex, or NoRecord
FirstMatching(r, s) ==
    LET hits == {k \in 1..Len(s) : /\ r.matchIndex < Len(s[k].data)
                                   /\ s[k].data[r.matchIndex + 1] = r.matchValue}
    IN  IF hits = {} THEN NoRecord
        ELSE s[CHOOSE k \in hits : \A h \in hits : k <= h]

\* actual equals expected: exactly for strings, booleans and null, within
\* 0.00001 for numbers, and as the same instant for times
EqualsExpected(actual, expected) ==
    CASE expected.k = "num"  -> /\ actual.k = "num"
                                /\ Abs(actual.n - expected.n) * 100000 <= 1
      [] expected.k = "time" -> /\ actual.k = "str"
                                /\ ParseRFC3339(actual.s).ok
                                /\ ParseRFC3339(actual.s).instant = expected.n
      [] OTHER               -> actual = expected

\* the parsing check has found its record and reports it as correctly parsed
ReportsParsed == result(check, checkSt).msg = "parsed"

\* C37: a parsing check that has found its record reports it as correctly
\* parsed exactly when the first record with matchValue at matchIndex has
\* at checkIndex a value equal to checkValue
C37_ParsingCheckComparesCheckedField ==
    (check.isParseCheck /\ ~checkPanic /\ checkSt.match # NoRecord) =>
        LET m == FirstMatching(check, seen)
        IN  /\ m = checkSt.match
            /\ ReportsParsed <=>
                  /\ check.checkIndex < Len(m.data)
                  /\ EqualsExpected(m.data[check.checkIndex + 1], check.checkValue)

\* what holds of the code: for an expected number the report does follow
\* the checked field
NumberCheckComparesCheckedField ==
    (check.isParseCheck /\ ~checkPanic /\ checkSt.match # NoRecord
        /\ check.checkValue.k = "num") =>
        LET m == FirstMatching(check, seen)
        IN  /\ m = checkSt.match
            /\ ReportsParsed <=>
                  /\ check.checkIndex < Len(m.data)
                  /\ EqualsExpected(m.data[check.checkIndex + 1], check.checkValue)

\* the decoded data of record has no element at an index the check reads
Narrow(r, record) ==
    \/ r.matchIndex >= Len(record.data)
    \/ r.isParseCheck /\ r.checkIndex >= Len(record.data)

\* C38: a record too narrow for the check never ends the host with a
\* run-time panic and is never taken as the check's match
C38_NarrowRecordsTolerated ==
    /\ ~checkPanic
    /\ checkSt.match # NoRecord => ~Narrow(check, checkSt.match)

\* what holds of the code: only a narrow record panics, and it is the last
\* one evaluated
PanicOnlyOnNarrowRecord ==
    checkPanic => seen # <<>> /\ Narrow(check, seen[Len(seen)])

\* the tokens that denote true
TrueTokens == {<<"t", "r", "u", "e">>, <<"t">>}

\* C39: in the record of a valid row a cell of a boolean column is true
\* when its text, in lower case, denotes true, and false when it denotes
\* false
C39_BooleanKeepsTruthValue ==
    \A p \in 1..MaxPublish : \A k \in 1..Len(pubs[p].stream) :
       (FromFullRow(p, k) /\ ~pubs[p].stream[k].invalid) =>
          LET rec == pubs[p].stream[k]
              properties == pubs[p].request.properties
          IN  \A j \in 1..Len(properties) :
                 properties[j].type = "boolean" =>
                    rec.data[j] = JsBoolean(toLowerCase(RowOf(rec)[j]) \in TrueTokens)

\* what holds of the code: such a cell is true whatever its text denotes
BooleanCellsAreTrue ==
    \A p \in 1..MaxPublish : \A k \in 1..Len(pubs[p].stream) :
       (FromFullRow(p, k) /\ ~pubs[p].stream[k].invalid) =>
          \A j \in 1..Len(pubs[p].request.properties) :
             pubs[p].request.properties[j].type = "boolean" =>
                pubs[p].stream[k].data[j] = JsBoolean(TRUE)

\* the positions of a record's data that hold null
NullsOf(rec) == {j \in 1..Len(rec.data) : rec.data[j] = JsNull}

\* C40: the record of a valid row holds no null, and the record of an
\* invalid row holds exactly one, at the index of the row's first
\* mismatching cell
C40_NullOnlyAtReportedMismatch ==
    \A p \in 1..MaxPublish : \A k \in 1..Len(pubs[p].stream) :
       FromFullRow(p, k) =>
          LET rec == pubs[p].stream[k]
              properties == pubs[p].request.properties
          IN  IF rec.invalid
              THEN NullsOf(rec) = {FirstMismatch(RowOf(rec), properties) + 1}
              ELSE NullsOf(rec) = {}

\* what holds of the code: a null stands at the first mismatching cell of
\* an invalid row, or where parseInt, parseFloat or new Date made no value
\* of the cell
NullWhereNoValue ==
    \A p \in 1..MaxPublish : \A k \in 1..Len(pubs[p].stream) :
       FromFullRow(p, k) =>
          LET rec == pubs[p].stream[k]
              properties == pubs[p].request.properties
          IN  \A j \in NullsOf(rec) :
                 \/ rec.invalid /\ j = FirstMismatch(RowOf(rec), properties) + 1
                 \/ convertToType(RowOf(rec)[j], properties[j].type)
                       \in {JsNaN, JsInvalidDate}

====
